---- MODULE Spec2Model ----
(***************************************************************************)
(* Rate-controlled broadcast engine of tauri-tick-bench: the uWebSockets    *)
(* server (server/src/uws-server.ts, the second unit of                     *)
(* src/server/src/index.ts) together with the shared configuration          *)
(* (server/src/config.ts).                                                  *)
(*                                                                         *)
(* JavaScript runs every callback to completion, so each handler is one     *)
(* action.  The only code that spans several steps here is the inner send   *)
(* loop of the high-frequency tick, which is kept step by step so that the  *)
(* point where tick() returns to the event loop is explicit.                *)
(***************************************************************************)
EXTENDS Integers, Sequences, FiniteSets, TLC

VARIABLES
    config,                 \* config.ts: the module-level ServerConfig object
    connectedClients,       \* uws-server: let connectedClients
    intervalId,             \* pacing setInterval handle, or NoTimer
    rampIntervalId,         \* ramp setInterval handle, or NoTimer
    telemetryIntervalId,    \* telemetry setInterval handle, or NoTimer
    highFreqRunning,        \* the busy-loop flag
    immediateQueue,         \* pending setImmediate(tick) callbacks, FIFO; one closure each
    running,                \* the tick() invocation currently on the stack, or NoTick
    messagesSentThisSecond, \* the egress counter
    ioPending,              \* an I/O event is waiting for the event loop to dispatch it
    rampBase,               \* history: the rate set by the last POST /config naming one (or the default)
    rampTicks,              \* history: ramp ticks since then
    overrodeRamp,           \* history: that POST arrived after the ramp had raised the rate, and the ramp has run on since
    lastTelemetryTime,      \* Date.now() of the last telemetry sample, measured from the present (<= 0)
    userData,               \* ws.getUserData().clientId of each open connection
    clientStats,            \* the Map of client reports, as its entries in insertion order
    backLog,                \* history: the last DELETE /stats and the back-channel messages handled since
    wss,                    \* ws-server: the WebSocketServer, clients maps each socket of the set to its readyState
    wsEngine,               \* ws-server: its intervalId, rampIntervalId, telemetryIntervalId, messagesSentThisSecond
    wsPushed,               \* history: per socket in wss.clients at the last ws-server broadcast, whether send() was called on it
    post,                   \* POST /config: the handler's locals between Object.assign(config, updates) and updateConfig(updates), or NoPost
    response,               \* history: the body of the last 200 response to POST /config
    sentTick,               \* generator.ts: the tick generateTickBinary() last encoded, or NoTickMessage
    wire,                   \* the bytes of that binary message, or <<>>
    serverTick,             \* what the server's decodeBinaryTick(wire) returned, or NoTickMessage
    clientTick,             \* what the client's decodeBinaryTick(wire) returned, or NoTickMessage
    prices,                 \* generator.ts: the Map of the last price of each symbol
    generated,              \* the symbol and price of the tick generateTick() last returned, or NoTickMessage
    generateCalls,          \* history: the number of generateTick() calls so far
    cachedMessage,          \* uws-server: the serial number of the encoding the cache holds, NoMessage for null
    cachedTimestamp,        \* Date.now() when it was encoded, in ms measured from the present reading (<= 0)
    clockPhase,             \* how far the present lies into the current millisecond of Date.now(), in us
    clientSockets,          \* useWebSocket: the readyState of each WebSocket the hook has made and not yet seen close
    identified,             \* per socket, whether onopen has sent the identify message on it
    wsRef,                  \* wsRef.current: a socket, or NoSocket for null
    connected,              \* state.connected
    reconnectTimeoutRef,    \* reconnectTimeoutRef.current: a timer, or NoTimeout for null
    reconnectTimers,        \* per timer, the ms left until it fires, or Unarmed
    clicks,                 \* history: the number of times the user has pressed Connect or Disconnect
    lastCall,               \* history: what called into the hook last: the mount effect, the user or a timer
    lastActualRate,         \* uws-server: the rate of the last telemetry sample, served by GET /stats
    runAge,                 \* history: the us passed since startHighFrequencyBroadcast took its first lastSendTime
    intervalDue             \* the ms left until the pacing setInterval fires next, 0 without one

\* the client report store and its history
statsVars == <<clientStats, backLog>>

\* the state of the Node ws engine (server/src/ws-server.ts)
wsVars == <<wss, wsEngine, wsPushed>>

\* the POST /config handler's locals and its answer
apiVars == <<post, response>>

\* a binary message on its way from generateTickBinary() to the two decoders
codecVars == <<sentTick, wire, serverTick, clientTick>>

\* the sample GET /stats serves
sampleVars == <<lastActualRate>>

\* the age of the busy-loop run
runVars == <<runAge>>

\* the clock of the pacing timer
paceVars == <<intervalDue>>

\* the two servers and the configuration they share
serverVars == <<config, connectedClients, intervalId, rampIntervalId, telemetryIntervalId,
                highFreqRunning, immediateQueue, running, messagesSentThisSecond, ioPending,
                rampBase, rampTicks, overrodeRamp, lastTelemetryTime, userData, statsVars,
                wsVars, apiVars, sampleVars, runVars, paceVars>>

\* the random walk of generateTick()
generatorVars == <<prices, generated, generateCalls>>

\* the pre-serialized message cache and the millisecond clock it reads
cacheVars == <<cachedMessage, cachedTimestamp, clockPhase>>

\* the client hook useWebSocket(url, autoConnect = true)
hookVars == <<clientSockets, identified, wsRef, connected, reconnectTimeoutRef,
              reconnectTimers, clicks, lastCall>>

vars == <<serverVars, codecVars, generatorVars, cacheVars, hookVars>>

(***************************************************************************)
(* Bounds of the model                                                      *)
(***************************************************************************)
MaxClients == 2
MaxChains == 2
MaxQuota == 2
MaxSent == 10
MaxRampTicks == 3
MaxRate == 11001
MaxAge == 6000
MaxGenerate == 3
MaxEncodings == 3
MaxElapsed == 2000
MaxCacheAge == 2
MaxClock == 2
MaxSockets == 3
MaxClicks == 2

(***************************************************************************)
(* Program constants                                                        *)
(***************************************************************************)
HIGH_FREQ_THRESHOLD == 10000
INTERVAL_MAX_RATE == 1000
MS_PER_SECOND == 1000
US_PER_MS == 1000
US_PER_SECOND == 1000000

\* getSerializedTick: now - cachedTimestamp >= 1
CACHE_MS == 1
BATCH_PERIOD_MS == 1
DEFAULT_RATE == 100
DEFAULT_RAMP_PERCENT == 10
DEFAULT_RAMP_INTERVAL_SEC == 5
TELEMETRY_PERIOD_MS == 1000
STALE_AFTER_MS == 5000

NoTimer == [kind |-> "none"]
NoTick == [rate |-> 0, left |-> 0, live |-> FALSE, now |-> 0, message |-> 0]

\* wsRef.current = null, reconnectTimeoutRef.current = null, a timer slot
\* holding no timer
NoSocket == 0
NoTimeout == 0
Unarmed == 0 - 1

\* onclose: setTimeout(() => connect(), 2000)
RECONNECT_DELAY_MS == 2000

\* let cachedMessage: ArrayBuffer | null = null
NoMessage == 0
NoPost == [kind |-> "none"]
NoTickMessage == [kind |-> "none"]
NoResponse == [kind |-> "none"]

\* getUserData().clientId of a connection that has not identified itself
NoClientId == "undefined"

DefaultConfig ==
    [rate |-> DEFAULT_RATE, rampEnabled |-> FALSE, rampPercent |-> DEFAULT_RAMP_PERCENT,
     rampIntervalSec |-> DEFAULT_RAMP_INTERVAL_SEC, format |-> "json"]

(***************************************************************************)
(* Inputs: the bodies POSTed to /config                                     *)
(***************************************************************************)
RateInputs == {-1, 0, 100, 999, 1000, 1001, 9999, 10000, 10001}

Updates ==
    {[rate |-> r] : r \in RateInputs}
    \cup {[rampEnabled |-> b] : b \in BOOLEAN}

\* the bodies used where fairness is checked: into and out of the busy loop
FairUpdates == {[rate |-> 1001], [rate |-> 10001], [rampEnabled |-> TRUE]}

\* the ids clients report under (client/src/hooks/useWebSocket.ts getClientId)
ClientIds == {"browser-js", "tauri-js"}

\* the numbers of two stats reports
ReportInputs ==
    {[messagesPerSec |-> 100, totalMessages |-> 100, avgLatencyMs |-> 1, p99LatencyMs |-> 0],
     [messagesPerSec |-> 90, totalMessages |-> 190, avgLatencyMs |-> 2, p99LatencyMs |-> 5]}

\* the back-channel messages: identify, stats, and one of another type
BackMessages ==
    {[type |-> "identify", clientId |-> c] : c \in ClientIds}
    \cup {[type |-> "stats", clientId |-> c, messagesPerSec |-> r.messagesPerSec,
           totalMessages |-> r.totalMessages, avgLatencyMs |-> r.avgLatencyMs,
           p99LatencyMs |-> r.p99LatencyMs] : c \in ClientIds, r \in ReportInputs}
    \cup {[type |-> "ping"]}

\* the stats messages of the back channel
StatsMessages == {msg \in BackMessages : msg.type = "stats"}

\* what JSON.parse makes of payloads that are no identify or stats message:
\* text that is no JSON (it throws), the text null, an object of another
\* type, an object without a type
ParseError == [thrown |-> "SyntaxError"]

JsonNull == [null |-> TRUE]

DiscardedMessages ==
    {ParseError, JsonNull, [type |-> "ping"], [clientId |-> "tauri-js"]}

\* the sockets that connect to the ws engine
Sockets == {"s1", "s2"}

\* the bodies POSTed to the ws engine's config server
WsUpdates == {[rate |-> 100], [rate |-> 1001], [rate |-> 10001]}

\* the steps the model's clock takes, in ms
ClockSteps == {MS_PER_SECOND}

\* the clock of the report store steps by half the staleness limit, so that a
\* report is seen fresh, at the limit and beyond it
StatsClockSteps == {STALE_AFTER_MS \div 2}

(***************************************************************************)
(* Pure helpers                                                             *)
(***************************************************************************)
\* a batch size rounded down instead of up
FloorDiv(a, b) == a \div b

\* Math.ceil(a / b) for b > 0
CeilDiv(a, b) == -((-a) \div b)

\* a sequence without its i-th element
RemoveAt(seq, i) == SubSeq(seq, 1, i - 1) \o SubSeq(seq, i + 1, Len(seq))

Max(a, b) == IF a >= b THEN a ELSE b

\* Math.round(a / b) for a >= 0 and b > 0: a half is rounded up
RoundDiv(a, b) == (2 * a + b) \div (2 * b)

\* a timestamp after d more ms have passed
Past(t, d) == Max(t - d, 0 - MaxAge)

\* a tick closure after us more microseconds have passed: its lastSendTime
\* lies that much further back (kept as MaxElapsed back beyond that)
Waited(closure, us) ==
    [closure EXCEPT !.lastSendTime = Max(@ - us, 0 - MaxElapsed)]

\* an armed timer after d more ms have passed
Sooner(timer, d) ==
    IF timer = NoTimer THEN timer ELSE [timer EXCEPT !.due = Max(@ - d, 0)]

\* Map.has(key)
MapHas(map, key) == \E i \in DOMAIN map : map[i].clientId = key

\* Map.get(key), for a key the map has
MapGet(map, key) == map[CHOOSE i \in DOMAIN map : map[i].clientId = key]

\* a Map.set that adds an entry without looking for the key
MapSetAppends(map, key, value) == Append(map, value)

\* Map.set(key, value): the entry of the key is replaced where it stands, a
\* new key is added at the end
MapSet(map, key, value) ==
    IF MapHas(map, key)
    THEN [i \in DOMAIN map |-> IF map[i].clientId = key THEN value ELSE map[i]]
    ELSE Append(map, value)

\* a clear that drops only the oldest entry
MapClearDropsOne(map) == IF map = <<>> THEN map ELSE Tail(map)

\* Map.clear()
MapClear(map) == <<>>

\* the numbers of a stats report
ReportFields == {"messagesPerSec", "totalMessages", "avgLatencyMs", "p99LatencyMs"}

\* the ClientStats object handleClientMessage builds from a stats message.  A
\* property the message lacks is copied as undefined: the record has no such
\* field
StatsEntry(msg) ==
    IF ReportFields \subseteq DOMAIN msg
    THEN [clientId |-> msg.clientId, messagesPerSec |-> msg.messagesPerSec,
          totalMessages |-> msg.totalMessages, avgLatencyMs |-> msg.avgLatencyMs,
          p99LatencyMs |-> msg.p99LatencyMs, lastUpdate |-> 0]
    ELSE [k \in {"clientId", "lastUpdate"} \cup (ReportFields \cap DOMAIN msg) |->
             IF k = "lastUpdate" THEN 0 ELSE msg[k]]

\* the try block throws: JSON.parse on text that is no JSON, msg.type on null
Throws(msg) == msg = ParseError \/ msg = JsonNull

\* msg.type, undefined where the object has no such property
TypeOf(msg) == IF "type" \in DOMAIN msg THEN msg.type ELSE "undefined"

\* the history kept from a DELETE /stats on: the clear, then what kind of
\* message came and for which id, for the two messages after the clear; after
\* those only that there were more
Cleared == <<[type |-> "clear", clientId |-> NoClientId]>>

Logged(log, msg) ==
    IF log = <<>> \/ log[1].type = "more" THEN log
    ELSE IF Len(log) <= 2
    THEN Append(log, [type |-> TypeOf(msg),
                      clientId |-> IF "clientId" \in DOMAIN msg THEN msg.clientId
                                   ELSE NoClientId])
    ELSE <<[type |-> "more", clientId |-> NoClientId]>>

\* Object.assign(config, updates): the named fields are overwritten
updateConfig(cfg, updates) ==
    [k \in DOMAIN cfg |-> IF k \in DOMAIN updates THEN updates[k] ELSE cfg[k]]

\* a getConfig() that hands out the module's own object
getConfigShared(cfg) == [ref |-> "config", fields |-> cfg]

\* getConfig(): return { ...config }, a new object with the fields of config
getConfig(cfg) == [ref |-> "copy", fields |-> cfg]

\* a ramp step that rounds up instead of down
RampRateCeil(rate, percent) == CeilDiv(rate * (100 + percent), 100)

\* Math.floor(current.rate * (1 + current.rampPercent / 100)).  In binary64
\* 1 + 10/100 lies 0.4 ulp above 1.1, so for the rates reached here the floor
\* of the rounded product is the floor of the exact one.
RampRate(rate, percent) == (rate * (100 + percent)) \div 100

\* band edges moved by one: 1000 batched, 10000 busy-looped
StrategyOfShiftedEdges(rate) ==
    IF rate >= HIGH_FREQ_THRESHOLD THEN "BusyLoop"
    ELSE IF rate < INTERVAL_MAX_RATE THEN "Interval"
    ELSE "Batch"

\* the branch startBroadcast takes for a rate
StrategyOf(rate) ==
    IF rate > HIGH_FREQ_THRESHOLD THEN "BusyLoop"
    ELSE IF rate <= INTERVAL_MAX_RATE THEN "Interval"
    ELSE "Batch"

\* a stopBroadcast that forgets the ramp timer
stopBroadcastKeepsRamp ==
    [intervalId |-> NoTimer, rampIntervalId |-> rampIntervalId,
     highFreqRunning |-> FALSE, telemetryIntervalId |-> NoTimer, chains |-> <<>>]

\* the scheduler fields as stopBroadcast leaves them
stopBroadcast ==
    [intervalId |-> NoTimer, rampIntervalId |-> NoTimer,
     highFreqRunning |-> FALSE, telemetryIntervalId |-> NoTimer, chains |-> <<>>]

\* a telemetry timer that is due the moment it is armed
startTelemetryAtOnce == [kind |-> "telemetry", due |-> 0]

\* startTelemetry after stopTelemetry: setInterval(sample, 1000), first due one
\* period from now
startTelemetry == [kind |-> "telemetry", due |-> TELEMETRY_PERIOD_MS]

\* the scheduler fields as startBroadcast leaves them: stopBroadcast, then the
\* branch for cfg.rate, startTelemetry, and the ramp timer if enabled.
\* chains holds the closure handed to setImmediate, if any.  The telemetry
\* and ramp timers carry the time left until they are due; the pacing timer
\* does not, its period lies below the resolution of the model's clock.
startBroadcast(cfg) ==
    LET s == stopBroadcast
        strategy == StrategyOf(cfg.rate)
        paced ==
            IF strategy = "BusyLoop"
            THEN [s EXCEPT !.highFreqRunning = TRUE,
                           !.chains = <<[rate |-> cfg.rate, lastSendTime |-> 0]>>]
            ELSE IF strategy = "Interval"
            THEN [s EXCEPT !.intervalId =
                     [kind |-> "single", periodNum |-> MS_PER_SECOND,
                      periodDen |-> cfg.rate, messagesPerTick |-> 1]]
            ELSE [s EXCEPT !.intervalId =
                     [kind |-> "batch", periodNum |-> BATCH_PERIOD_MS, periodDen |-> 1,
                      messagesPerTick |-> CeilDiv(cfg.rate, MS_PER_SECOND)]]
        withTelemetry == [paced EXCEPT !.telemetryIntervalId = startTelemetry]
    IN  IF cfg.rampEnabled
        THEN [withTelemetry EXCEPT !.rampIntervalId =
                 [kind |-> "ramp", periodMs |-> cfg.rampIntervalSec * MS_PER_SECOND,
                  due |-> cfg.rampIntervalSec * MS_PER_SECOND]]
        ELSE withTelemetry

\* what app.publish is handed, as frame type and payload encoding.
\* broadcastPubSub and broadcastBatchPubSub: JSON.stringify(generateTick())
\* published as a text frame, whatever cfg.format is
broadcastPubSubWire(cfg) == [isBinary |-> FALSE, payload |-> "json"]

\* broadcastBufferPubSub(getSerializedTick()): the UTF-8 bytes of the JSON
\* text published as a binary frame, whatever cfg.format is
broadcastBufferPubSubWire(cfg) == [isBinary |-> TRUE, payload |-> "json"]

\* the two encodings of the generator: generateTickBinary's 20-byte record
\* in a binary frame, JSON.stringify(generateTick()) in a text frame
generateTickWire(format) ==
    IF format = "binary"
    THEN [isBinary |-> TRUE, payload |-> "binary20"]
    ELSE [isBinary |-> FALSE, payload |-> "json"]

\* a broadcast that leaves out the readyState test
broadcastTargetsAll(clients) == DOMAIN clients

\* wss.clients.forEach with the readyState === OPEN test: the sockets send()
\* is called on
broadcastTargets(clients) == {t \in DOMAIN clients : clients[t] = "OPEN"}

\* ws-server stopBroadcast: the three handles are cleared
wsStopBroadcast(engine) ==
    [engine EXCEPT !.intervalId = NoTimer, !.rampIntervalId = NoTimer,
                   !.telemetryIntervalId = NoTimer]

\* ws-server startBroadcast: stopBroadcast, then one message per interval up
\* to MAX_TICKS_PER_SEC and batches per 1 ms above, startTelemetry, and the
\* ramp timer if enabled
wsStartBroadcast(engine, cfg) ==
    LET s == wsStopBroadcast(engine)
        paced ==
            IF cfg.rate <= INTERVAL_MAX_RATE
            THEN [s EXCEPT !.intervalId =
                     [kind |-> "single", periodNum |-> MS_PER_SECOND,
                      periodDen |-> cfg.rate, messagesPerTick |-> 1]]
            ELSE [s EXCEPT !.intervalId =
                     [kind |-> "batch", periodNum |-> BATCH_PERIOD_MS, periodDen |-> 1,
                      messagesPerTick |-> CeilDiv(cfg.rate, INTERVAL_MAX_RATE)]]
        withTelemetry == [paced EXCEPT !.telemetryIntervalId = startTelemetry]
    IN  IF cfg.rampEnabled
        THEN [withTelemetry EXCEPT !.rampIntervalId =
                 [kind |-> "ramp", periodMs |-> cfg.rampIntervalSec * MS_PER_SECOND,
                  due |-> cfg.rampIntervalSec * MS_PER_SECOND]]
        ELSE withTelemetry

\* the delay setInterval keeps for a pacing timer, in whole ms: 1000 / rate
\* truncated, and 1 where that is no number from 1 up (a rate of 0 or below)
\* and for the batch timer; 0 stands for no timer
PeriodMs(timer) ==
    IF timer = NoTimer THEN 0
    ELSE IF timer.periodDen <= 0 THEN 1
    ELSE Max(timer.periodNum \div timer.periodDen, 1)

\* write a scheduler record into the variables; a started chain joins the
\* immediate queue behind the callbacks already waiting there
SetScheduler(s) ==
    /\ intervalId' = s.intervalId
    /\ intervalDue' = PeriodMs(s.intervalId)
    /\ rampIntervalId' = s.rampIntervalId
    /\ telemetryIntervalId' = s.telemetryIntervalId
    /\ highFreqRunning' = s.highFreqRunning
    /\ immediateQueue' = immediateQueue \o s.chains
    /\ Len(immediateQueue') <= MaxChains

SchedulerUnchanged ==
    UNCHANGED <<intervalId, rampIntervalId, telemetryIntervalId, highFreqRunning,
                immediateQueue, intervalDue>>

\* the history overrodeRamp is kept while the ramp timer stays armed and has
\* fired at most once since the POST
StillOverrode == overrodeRamp /\ rampIntervalId' # NoTimer /\ rampTicks' <= 1

\* a restartBroadcast without the connectedClients test
restartBroadcastUnguarded(cfg, clients) == SetScheduler(startBroadcast(cfg))

\* restartBroadcast: start only while somebody is connected
restartBroadcast(cfg, clients) ==
    IF clients > 0 THEN SetScheduler(startBroadcast(cfg)) ELSE SchedulerUnchanged

UNITS_PER_ONE == 10000000

\* the 0.0001 of Math.max(0.0001, ...)
PRICE_FLOOR == [whole |-> 0, frac |-> 1000]

\* const prices = new Map([...]): 50000, 3000, 100, 0.1, 0.5
InitialPrices ==
    [BTC |-> [whole |-> 50000, frac |-> 0], ETH |-> [whole |-> 3000, frac |-> 0],
     SOL |-> [whole |-> 100, frac |-> 0], DOGE |-> [whole |-> 0, frac |-> 1000000],
     XRP |-> [whole |-> 0, frac |-> 5000000]]

\* the Map after a long decline of DOGE and XRP: DOGE has come down to
\* 0.0001001 and XRP to 0.0002
DeclinedPrices ==
    [InitialPrices EXCEPT !.DOGE = [whole |-> 0, frac |-> 1001],
                          !.XRP = [whole |-> 0, frac |-> 2000]]

ServerInit ==
    /\ config = DefaultConfig
    /\ lastActualRate = 0
    /\ runAge = 0
    /\ intervalDue = 0
    /\ connectedClients = 0
    /\ intervalId = NoTimer
    /\ rampIntervalId = NoTimer
    /\ telemetryIntervalId = NoTimer
    /\ highFreqRunning = FALSE
    /\ immediateQueue = <<>>
    /\ running = NoTick
    /\ messagesSentThisSecond = 0
    /\ ioPending = FALSE
    /\ rampBase = DEFAULT_RATE
    /\ rampTicks = 0
    /\ overrodeRamp = FALSE
    /\ lastTelemetryTime = 0
    /\ userData = <<>>
    /\ clientStats = <<>>
    /\ backLog = <<>>
    /\ wss = [clients |-> <<>>]
    /\ wsEngine = [intervalId |-> NoTimer, rampIntervalId |-> NoTimer,
                   telemetryIntervalId |-> NoTimer, messagesSentThisSecond |-> 0]
    /\ wsPushed = <<>>
    /\ post = NoPost
    /\ response = NoResponse
    /\ sentTick = NoTickMessage
    /\ wire = <<>>
    /\ serverTick = NoTickMessage
    /\ clientTick = NoTickMessage
    /\ generated = NoTickMessage
    /\ generateCalls = 0
    /\ cachedMessage = NoMessage
    /\ cachedTimestamp = 0
    /\ clockPhase = 0
    /\ clientSockets = [s \in 1..MaxSockets |-> IF s = 1 THEN "CONNECTING" ELSE "NONE"]
    /\ identified = [s \in 1..MaxSockets |-> FALSE]
    /\ wsRef = 1
    /\ connected = FALSE
    /\ reconnectTimeoutRef = NoTimeout
    /\ reconnectTimers = [t \in 1..MaxSockets |-> Unarmed]
    /\ clicks = 0
    /\ lastCall = "mount"

\* the state after construction
Init ==
    /\ ServerInit
    /\ prices = InitialPrices

(***************************************************************************)
(* The environment: an I/O event reaches the process                        *)
(***************************************************************************)
Arrive ==
    /\ ~ioPending
    /\ ioPending' = TRUE
    /\ UNCHANGED <<config, connectedClients, intervalId, rampIntervalId,
                   telemetryIntervalId, highFreqRunning, immediateQueue, running,
                   messagesSentThisSecond, rampBase, rampTicks>>
    /\ UNCHANGED <<overrodeRamp, lastTelemetryTime, userData, statsVars, wsVars>>
    /\ UNCHANGED apiVars
    /\ UNCHANGED codecVars
    /\ UNCHANGED generatorVars
    /\ UNCHANGED cacheVars
    /\ UNCHANGED hookVars
    /\ UNCHANGED sampleVars
    /\ UNCHANGED runVars
    /\ UNCHANGED paceVars

(***************************************************************************)
(* Handlers, dispatched by the event loop when no callback is running       *)
(***************************************************************************)
\* ws open: subscribe, connectedClients++, startBroadcast()
Open ==
    /\ ioPending
    /\ running = NoTick
    /\ connectedClients < MaxClients
    /\ ioPending' = FALSE
    /\ connectedClients' = connectedClients + 1
    /\ userData' = Append(userData, NoClientId)
    /\ SetScheduler(startBroadcast(config))
    /\ UNCHANGED <<config, running, messagesSentThisSecond, rampBase, rampTicks>>
    /\ UNCHANGED <<overrodeRamp, lastTelemetryTime, statsVars, wsVars>>
    /\ UNCHANGED apiVars
    /\ UNCHANGED codecVars
    /\ UNCHANGED generatorVars
    /\ UNCHANGED cacheVars
    /\ UNCHANGED hookVars
    /\ UNCHANGED sampleVars
    /\ UNCHANGED runVars

\* ws close of one of the open connections: connectedClients--, stopBroadcast()
\* when the count reaches zero.  The report the client left in clientStats
\* stays.
Close ==
    /\ ioPending
    /\ running = NoTick
    /\ connectedClients > 0
    /\ ioPending' = FALSE
    /\ connectedClients' = connectedClients - 1
    /\ \E i \in DOMAIN userData : userData' = RemoveAt(userData, i)
    /\ IF connectedClients' = 0 THEN SetScheduler(stopBroadcast) ELSE SchedulerUnchanged
    /\ UNCHANGED <<config, running, messagesSentThisSecond, rampBase, rampTicks>>
    /\ overrodeRamp' = StillOverrode
    /\ UNCHANGED <<lastTelemetryTime, statsVars, wsVars>>
    /\ UNCHANGED apiVars
    /\ UNCHANGED codecVars
    /\ UNCHANGED generatorVars
    /\ UNCHANGED cacheVars
    /\ UNCHANGED hookVars
    /\ UNCHANGED sampleVars
    /\ UNCHANGED runVars

\* a POST /config that stores the update and leaves the scheduler running as
\* it was
PostConfigNoRestart(updates) ==
    /\ ioPending
    /\ running = NoTick
    /\ ioPending' = FALSE
    /\ config' = updateConfig(config, updates)
    /\ SchedulerUnchanged
    /\ IF "rate" \in DOMAIN updates
       THEN /\ rampBase' = config'.rate
            /\ rampTicks' = 0
            /\ overrodeRamp' = (rampIntervalId # NoTimer /\ rampTicks > 0)
       ELSE /\ UNCHANGED <<rampBase, rampTicks>>
            /\ overrodeRamp' = StillOverrode
    /\ UNCHANGED <<connectedClients, running, messagesSentThisSecond>>
    /\ UNCHANGED <<lastTelemetryTime, userData, statsVars, wsVars>>
    /\ post' = NoPost
    /\ UNCHANGED codecVars
    /\ UNCHANGED generatorVars
    /\ UNCHANGED cacheVars
    /\ UNCHANGED hookVars
    /\ UNCHANGED sampleVars
    /\ UNCHANGED runVars

\* POST /config with a JSON body: updateConfig(updates), restartBroadcast().
\* The answer leaves the process; where it is followed, Answered records it.
PostConfig(updates) ==
    /\ ioPending
    /\ running = NoTick
    /\ ioPending' = FALSE
    /\ config' = updateConfig(config, updates)
    /\ restartBroadcast(config', connectedClients)
    /\ IF "rate" \in DOMAIN updates
       THEN /\ rampBase' = config'.rate
            /\ rampTicks' = 0
            /\ overrodeRamp' = (rampIntervalId # NoTimer /\ rampTicks > 0)
       ELSE /\ UNCHANGED <<rampBase, rampTicks>>
            /\ overrodeRamp' = StillOverrode
    /\ UNCHANGED <<connectedClients, running, messagesSentThisSecond>>
    /\ UNCHANGED <<lastTelemetryTime, userData, statsVars, wsVars>>
    /\ post' = NoPost
    /\ UNCHANGED codecVars
    /\ UNCHANGED generatorVars
    /\ UNCHANGED cacheVars
    /\ UNCHANGED hookVars
    /\ UNCHANGED sampleVars
    /\ UNCHANGED runVars

\* POST /config with a body JSON.parse rejects: the catch branch, nothing
\* changes
PostConfigInvalid ==
    /\ ioPending
    /\ running = NoTick
    /\ ioPending' = FALSE
    /\ UNCHANGED <<config, connectedClients, intervalId, rampIntervalId,
                   telemetryIntervalId, highFreqRunning, immediateQueue, running,
                   messagesSentThisSecond, rampBase, rampTicks>>
    /\ UNCHANGED <<overrodeRamp, lastTelemetryTime, userData, statsVars, wsVars>>
    /\ UNCHANGED post
    /\ UNCHANGED codecVars
    /\ UNCHANGED generatorVars
    /\ UNCHANGED cacheVars
    /\ UNCHANGED hookVars
    /\ UNCHANGED sampleVars
    /\ UNCHANGED runVars
    /\ UNCHANGED paceVars

\* a uWS.HttpResponse nothing has been written to
FreshResponse == [status |-> "none", body |-> "none"]

\* res.writeStatus(status) of uWebSockets.js: the status line is written
\* once; a call after it has been written does nothing
writeStatus(res, status) ==
    IF res.status # "none" THEN res ELSE [res EXCEPT !.status = status]

\* res.writeHeader(key, value) of uWebSockets.js: a response whose status
\* line is not yet written gets "200 OK" first (the headers themselves are
\* not followed)
writeHeader(res) == writeStatus(res, "200 OK")

\* setCorsHeaders(res): three writeHeader calls
setCorsHeaders(res) == writeHeader(writeHeader(writeHeader(res)))

\* res.end(body)
end(res, body) == [writeStatus(res, "200 OK") EXCEPT !.body = body]

\* what the catch branch of POST /config sends: setCorsHeaders(res) has run
\* at the top of the handler, then res.writeStatus('400 Bad Request') and
\* res.end('Invalid JSON')
BadRequest ==
    end(writeStatus(setCorsHeaders(FreshResponse), "400 Bad Request"), "Invalid JSON")

Refused == response' = BadRequest

\* the bodies POSTed as text, and what JSON.parse makes of them: the update
\* object, or the SyntaxError it throws
Bodies == {"{\"rate\":1001}", "{\"rampEnabled\":true}", "{\"rate\":", "rate=5", ""}

JsonParse(body) ==
    IF body = "{\"rate\":1001}" THEN [rate |-> 1001]
    ELSE IF body = "{\"rampEnabled\":true}" THEN [rampEnabled |-> TRUE]
    ELSE ParseError


\* res.end(JSON.stringify(getConfig())), read after updateConfig() has run
Answered == response' = getConfig(config').fields

\* POST /config up to the point where the handler has assigned the update to
\* the object getConfig() gave it: const config = getConfig();
\* Object.assign(config, updates).  An object that is the module's own carries
\* the assignment into the engine's configuration.
PostAssign(updates) ==
    /\ ioPending
    /\ running = NoTick
    /\ post = NoPost
    /\ LET local == getConfig(config)
       IN /\ post' = [updates |-> updates,
                      local |-> [local EXCEPT !.fields = updateConfig(local.fields, updates)]]
          /\ config' = IF local.ref = "config" THEN updateConfig(config, updates) ELSE config
    /\ UNCHANGED <<connectedClients, intervalId, rampIntervalId, telemetryIntervalId,
                   highFreqRunning, immediateQueue, running, messagesSentThisSecond,
                   ioPending, rampBase, rampTicks, overrodeRamp>>
    /\ UNCHANGED <<lastTelemetryTime, userData, statsVars, wsVars, response>>
    /\ UNCHANGED codecVars
    /\ UNCHANGED generatorVars
    /\ UNCHANGED cacheVars
    /\ UNCHANGED hookVars
    /\ UNCHANGED sampleVars
    /\ UNCHANGED runVars
    /\ UNCHANGED paceVars

\* the rest of that handler: updateConfig(updates), restartBroadcast(), and
\* the response getConfig()
PostApply ==
    /\ post # NoPost
    /\ PostConfig(post.updates)
    /\ Answered

\* a message handler without the try/catch: what the try block throws ends
\* the process, and with it the broadcast
handleClientMessageUncaught(i, msg) ==
    /\ ioPending
    /\ running = NoTick
    /\ i \in DOMAIN userData
    /\ ioPending' = FALSE
    /\ IF Throws(msg)
       THEN /\ SetScheduler(stopBroadcast)
            /\ UNCHANGED <<userData, clientStats>>
       ELSE /\ SchedulerUnchanged
            /\ IF TypeOf(msg) = "identify"
               THEN /\ userData' = [userData EXCEPT ![i] = msg.clientId]
                    /\ clientStats' = clientStats
               ELSE IF TypeOf(msg) = "stats"
               THEN /\ userData' = userData
                    /\ clientStats' = MapSet(clientStats, msg.clientId, StatsEntry(msg))
               ELSE UNCHANGED <<userData, clientStats>>
    /\ backLog' = Logged(backLog, msg)
    /\ UNCHANGED <<config, connectedClients, running, messagesSentThisSecond,
                   rampBase, rampTicks>>
    /\ UNCHANGED <<overrodeRamp, lastTelemetryTime, wsVars>>
    /\ UNCHANGED apiVars
    /\ UNCHANGED codecVars
    /\ UNCHANGED generatorVars
    /\ UNCHANGED cacheVars
    /\ UNCHANGED hookVars
    /\ UNCHANGED sampleVars
    /\ UNCHANGED runVars

\* a message handler that files a report under the id the connection gave by
\* identify, whatever id the report names
handleClientMessageByConnection(i, msg) ==
    /\ ioPending
    /\ running = NoTick
    /\ i \in DOMAIN userData
    /\ ioPending' = FALSE
    /\ IF Throws(msg)
       THEN UNCHANGED <<userData, clientStats>>
       ELSE IF TypeOf(msg) = "identify"
       THEN /\ userData' = [userData EXCEPT ![i] = msg.clientId]
            /\ clientStats' = clientStats
       ELSE IF TypeOf(msg) = "stats"
       THEN /\ userData' = userData
            /\ clientStats' = MapSet(clientStats, userData[i],
                                     [StatsEntry(msg) EXCEPT !.clientId = userData[i]])
       ELSE UNCHANGED <<userData, clientStats>>
    /\ backLog' = Logged(backLog, msg)
    /\ UNCHANGED <<config, connectedClients, intervalId, rampIntervalId,
                   telemetryIntervalId, highFreqRunning, immediateQueue, running,
                   messagesSentThisSecond, rampBase, rampTicks>>
    /\ UNCHANGED <<overrodeRamp, lastTelemetryTime, wsVars>>
    /\ UNCHANGED apiVars
    /\ UNCHANGED codecVars
    /\ UNCHANGED generatorVars
    /\ UNCHANGED cacheVars
    /\ UNCHANGED hookVars
    /\ UNCHANGED sampleVars
    /\ UNCHANGED runVars
    /\ UNCHANGED paceVars

\* ws message: handleClientMessage(ws, data) on connection i, msg being what
\* JSON.parse made of the payload.  identify keeps the id on the connection;
\* stats stores a report under the id the message names, stamped Date.now();
\* any other message, and whatever throws inside the try block, is ignored.
handleClientMessage(i, msg) ==
    /\ ioPending
    /\ running = NoTick
    /\ i \in DOMAIN userData
    /\ ioPending' = FALSE
    /\ IF Throws(msg)
       THEN UNCHANGED <<userData, clientStats>>
       ELSE IF TypeOf(msg) = "identify"
       THEN /\ userData' = [userData EXCEPT ![i] = msg.clientId]
            /\ clientStats' = clientStats
       ELSE IF TypeOf(msg) = "stats"
       THEN /\ userData' = userData
            /\ clientStats' = MapSet(clientStats, msg.clientId, StatsEntry(msg))
       ELSE UNCHANGED <<userData, clientStats>>
    /\ backLog' = Logged(backLog, msg)
    /\ UNCHANGED <<config, connectedClients, intervalId, rampIntervalId,
                   telemetryIntervalId, highFreqRunning, immediateQueue, running,
                   messagesSentThisSecond, rampBase, rampTicks>>
    /\ UNCHANGED <<overrodeRamp, lastTelemetryTime, wsVars>>
    /\ UNCHANGED apiVars
    /\ UNCHANGED codecVars
    /\ UNCHANGED generatorVars
    /\ UNCHANGED cacheVars
    /\ UNCHANGED hookVars
    /\ UNCHANGED sampleVars
    /\ UNCHANGED runVars
    /\ UNCHANGED paceVars

\* DELETE /stats: clientStats.clear()
DeleteStats ==
    /\ ioPending
    /\ running = NoTick
    /\ ioPending' = FALSE
    /\ clientStats' = MapClear(clientStats)
    /\ backLog' = Cleared
    /\ UNCHANGED <<config, connectedClients, intervalId, rampIntervalId,
                   telemetryIntervalId, highFreqRunning, immediateQueue, running,
                   messagesSentThisSecond, rampBase, rampTicks>>
    /\ UNCHANGED <<overrodeRamp, lastTelemetryTime, userData, wsVars>>
    /\ UNCHANGED apiVars
    /\ UNCHANGED codecVars
    /\ UNCHANGED generatorVars
    /\ UNCHANGED cacheVars
    /\ UNCHANGED hookVars
    /\ UNCHANGED sampleVars
    /\ UNCHANGED runVars
    /\ UNCHANGED paceVars

(***************************************************************************)
(* The Node ws engine (server/src/ws-server.ts).  It shares config.ts with  *)
(* the uWebSockets engine and has its own handles and counter; its          *)
(* telemetry and ramp callbacks are those of the uWebSockets engine and are *)
(* not repeated.                                                            *)
(***************************************************************************)
\* wss.on('connection'): the socket is in wss.clients and OPEN; startBroadcast()
wsConnection(socket) ==
    /\ socket \notin DOMAIN wss.clients
    /\ wss' = [wss EXCEPT !.clients =
                  [t \in DOMAIN wss.clients \cup {socket} |->
                      IF t = socket THEN "OPEN" ELSE wss.clients[t]]]
    /\ wsEngine' = wsStartBroadcast(wsEngine, config)
    /\ UNCHANGED <<config, connectedClients, intervalId, rampIntervalId,
                   telemetryIntervalId, highFreqRunning, immediateQueue, running,
                   messagesSentThisSecond, ioPending, rampBase, rampTicks,
                   overrodeRamp, lastTelemetryTime, userData, statsVars, wsPushed>>
    /\ UNCHANGED apiVars
    /\ UNCHANGED codecVars
    /\ UNCHANGED generatorVars
    /\ UNCHANGED cacheVars
    /\ UNCHANGED hookVars
    /\ UNCHANGED sampleVars
    /\ UNCHANGED runVars
    /\ UNCHANGED paceVars

\* a close handshake starts on an open socket: readyState CLOSING, the socket
\* stays in wss.clients until it has closed
wsClosing(socket) ==
    /\ socket \in DOMAIN wss.clients
    /\ wss.clients[socket] = "OPEN"
    /\ wss' = [wss EXCEPT !.clients[socket] = "CLOSING"]
    /\ UNCHANGED <<config, connectedClients, intervalId, rampIntervalId,
                   telemetryIntervalId, highFreqRunning, immediateQueue, running,
                   messagesSentThisSecond, ioPending, rampBase, rampTicks,
                   overrodeRamp, lastTelemetryTime, userData, statsVars,
                   wsEngine, wsPushed>>
    /\ UNCHANGED apiVars
    /\ UNCHANGED codecVars
    /\ UNCHANGED generatorVars
    /\ UNCHANGED cacheVars
    /\ UNCHANGED hookVars
    /\ UNCHANGED sampleVars
    /\ UNCHANGED runVars
    /\ UNCHANGED paceVars

\* ws.on('close'): the server has taken the socket out of wss.clients;
\* stopBroadcast() when the set is empty
wsClose(socket) ==
    /\ socket \in DOMAIN wss.clients
    /\ wss' = [wss EXCEPT !.clients =
                  [t \in DOMAIN wss.clients \ {socket} |-> wss.clients[t]]]
    /\ wsEngine' = IF DOMAIN wss'.clients = {} THEN wsStopBroadcast(wsEngine)
                   ELSE wsEngine
    /\ UNCHANGED <<config, connectedClients, intervalId, rampIntervalId,
                   telemetryIntervalId, highFreqRunning, immediateQueue, running,
                   messagesSentThisSecond, ioPending, rampBase, rampTicks,
                   overrodeRamp, lastTelemetryTime, userData, statsVars, wsPushed>>
    /\ UNCHANGED apiVars
    /\ UNCHANGED codecVars
    /\ UNCHANGED generatorVars
    /\ UNCHANGED cacheVars
    /\ UNCHANGED hookVars
    /\ UNCHANGED sampleVars
    /\ UNCHANGED runVars
    /\ UNCHANGED paceVars

\* POST /config of the config server: Object.assign(config, updates), then the
\* change callback: restartBroadcast()
wsPostConfig(updates) ==
    /\ config' = updateConfig(config, updates)
    /\ wsEngine' = IF DOMAIN wss.clients # {} THEN wsStartBroadcast(wsEngine, config')
                   ELSE wsEngine
    /\ IF "rate" \in DOMAIN updates
       THEN /\ rampBase' = config'.rate
            /\ rampTicks' = 0
            /\ overrodeRamp' = FALSE
       ELSE UNCHANGED <<rampBase, rampTicks, overrodeRamp>>
    /\ UNCHANGED <<connectedClients, intervalId, rampIntervalId,
                   telemetryIntervalId, highFreqRunning, immediateQueue, running,
                   messagesSentThisSecond, ioPending, lastTelemetryTime, userData,
                   statsVars, wss, wsPushed>>
    /\ UNCHANGED apiVars
    /\ UNCHANGED codecVars
    /\ UNCHANGED generatorVars
    /\ UNCHANGED cacheVars
    /\ UNCHANGED hookVars
    /\ UNCHANGED sampleVars
    /\ UNCHANGED runVars
    /\ UNCHANGED paceVars

\* the pacing interval callback: broadcast() or broadcastBatch(n).  Each of
\* the n messages goes to the sockets broadcastTargets picks, and the counter
\* goes up by one per send() call.
wsIntervalTick ==
    /\ wsEngine.intervalId # NoTimer
    /\ LET targets == broadcastTargets(wss.clients)
           sends == wsEngine.intervalId.messagesPerTick * Cardinality(targets)
       IN  /\ wsEngine.messagesSentThisSecond + sends <= MaxSent
           /\ wsEngine' = [wsEngine EXCEPT !.messagesSentThisSecond = @ + sends]
           /\ wsPushed' = [t \in DOMAIN wss.clients |-> t \in targets]
    /\ UNCHANGED <<config, connectedClients, intervalId, rampIntervalId,
                   telemetryIntervalId, highFreqRunning, immediateQueue, running,
                   messagesSentThisSecond, ioPending, rampBase, rampTicks,
                   overrodeRamp, lastTelemetryTime, userData, statsVars, wss>>
    /\ UNCHANGED apiVars
    /\ UNCHANGED codecVars
    /\ UNCHANGED generatorVars
    /\ UNCHANGED cacheVars
    /\ UNCHANGED hookVars
    /\ UNCHANGED sampleVars
    /\ UNCHANGED runVars
    /\ UNCHANGED paceVars

(***************************************************************************)
(* The clock                                                                *)
(***************************************************************************)
\* d ms pass.  All times are measured from the present, so every kept
\* timestamp moves d into the past (those older than MaxAge are kept as
\* MaxAge old) and every armed timer comes d closer to being due.
Aged(d) ==
    /\ running = NoTick
    /\ lastTelemetryTime' = Past(lastTelemetryTime, d)
    /\ clientStats' = [i \in DOMAIN clientStats |->
                          [clientStats[i] EXCEPT !.lastUpdate = Past(@, d)]]
    /\ telemetryIntervalId' = Sooner(telemetryIntervalId, d)
    /\ rampIntervalId' = Sooner(rampIntervalId, d)
    /\ immediateQueue' = [i \in DOMAIN immediateQueue |->
                             Waited(immediateQueue[i], d * US_PER_MS)]
    /\ cachedTimestamp' = Max(cachedTimestamp - d, 0 - MaxCacheAge)
    /\ UNCHANGED <<config, connectedClients, intervalId, highFreqRunning,
                   running, messagesSentThisSecond, ioPending,
                   rampBase, rampTicks, overrodeRamp, userData, backLog, wsVars>>
    /\ UNCHANGED apiVars
    /\ UNCHANGED codecVars
    /\ UNCHANGED generatorVars
    /\ UNCHANGED <<cachedMessage, clockPhase>>
    /\ UNCHANGED hookVars
    /\ UNCHANGED sampleVars
    /\ UNCHANGED runVars

\* d ms pass; the pacing timer is not followed, its period lies below the
\* steps of this clock
Advance(d) == Aged(d) /\ UNCHANGED intervalDue

\* the pacing timer has run down
PaceDue == intervalId # NoTimer /\ intervalDue = 0

\* d ms pass, the pacing timer followed: a timer that is due has its
\* callback run before more time passes
PacedAdvance(d) == ~PaceDue /\ Aged(d) /\ intervalDue' = Max(intervalDue - d, 0)

(***************************************************************************)
(* Timer callbacks                                                          *)
(***************************************************************************)
\* the ramp interval callback
RampTick ==
    /\ rampIntervalId # NoTimer
    /\ running = NoTick
    /\ rampTicks < MaxRampTicks
    /\ RampRate(config.rate, config.rampPercent) <= MaxRate
    /\ config' = [config EXCEPT !.rate = RampRate(config.rate, config.rampPercent)]
    /\ restartBroadcast(config', connectedClients)
    /\ rampTicks' = rampTicks + 1
    /\ UNCHANGED <<connectedClients, running, messagesSentThisSecond, ioPending, rampBase>>
    /\ overrodeRamp' = StillOverrode
    /\ UNCHANGED <<lastTelemetryTime, userData, statsVars, wsVars>>
    /\ UNCHANGED apiVars
    /\ UNCHANGED codecVars
    /\ UNCHANGED generatorVars
    /\ UNCHANGED cacheVars
    /\ UNCHANGED hookVars
    /\ UNCHANGED sampleVars
    /\ UNCHANGED runVars

\* the pacing interval callback: broadcastPubSub or broadcastBatchPubSub(n).
\* Node arms a timer whose delay is below 1, above 2^31-1 or NaN with 1 ms,
\* so an armed timer fires whatever period was asked for.
IntervalTick ==
    /\ intervalId # NoTimer
    /\ intervalDue' = PeriodMs(intervalId)
    /\ running = NoTick
    /\ messagesSentThisSecond + intervalId.messagesPerTick <= MaxSent
    /\ messagesSentThisSecond' = messagesSentThisSecond + intervalId.messagesPerTick
    /\ UNCHANGED <<config, connectedClients, intervalId, rampIntervalId,
                   telemetryIntervalId, highFreqRunning, immediateQueue, running,
                   ioPending, rampBase, rampTicks>>
    /\ UNCHANGED <<overrodeRamp, lastTelemetryTime, userData, statsVars, wsVars>>
    /\ UNCHANGED apiVars
    /\ UNCHANGED codecVars
    /\ UNCHANGED generatorVars
    /\ UNCHANGED cacheVars
    /\ UNCHANGED hookVars
    /\ UNCHANGED sampleVars
    /\ UNCHANGED runVars

\* the client types the telemetry line lists
clientTypes == {"browser-js", "tauri-js", "tauri-rust"}

\* a connected view that shows every stored report, however old
connectedViewNoAgeTest == [id \in clientTypes |-> MapHas(clientStats, id)]

\* the connected view of a telemetry tick taken now: per client type, TRUE
\* where the line shows the report, FALSE where it shows "(not connected)"
connectedView ==
    [id \in clientTypes |->
        /\ MapHas(clientStats, id)
        /\ (0 - MapGet(clientStats, id).lastUpdate) < STALE_AFTER_MS]

\* the stack after an exception left a timer callback uncaught: the process
\* has ended, the event loop dispatches nothing more
Thrown == [rate |-> 0, left |-> 0, live |-> FALSE, now |-> 0, message |-> 0 - 1]

\* building the telemetry line throws a TypeError: a report shown as
\* connected has messagesPerSec or avgLatencyMs undefined, and
\* .toLocaleString() or .toFixed(1) is called on it (p99LatencyMs undefined
\* fails the test > 0 and is not formatted)
FormatThrows ==
    \E id \in clientTypes :
        /\ connectedView[id]
        /\ {"messagesPerSec", "avgLatencyMs"} \ DOMAIN MapGet(clientStats, id) # {}

\* the telemetry interval callback: the sample actualRate is logged and kept
\* for GET /stats, the connected view is logged, then the counter is reset and
\* the clock reading kept; the interval timer is due again one period on.
\* Where building the line throws, the counter and the clock reading are
\* not reached
TelemetryTick ==
    /\ telemetryIntervalId # NoTimer
    /\ running = NoTick
    /\ IF FormatThrows
       THEN /\ running' = Thrown
            /\ UNCHANGED <<messagesSentThisSecond, lastTelemetryTime, telemetryIntervalId>>
       ELSE /\ messagesSentThisSecond' = 0
            /\ lastTelemetryTime' = 0
            /\ telemetryIntervalId' = startTelemetry
            /\ running' = running
    /\ UNCHANGED <<config, connectedClients, intervalId, rampIntervalId,
                   highFreqRunning, immediateQueue,
                   ioPending, rampBase, rampTicks>>
    /\ UNCHANGED <<overrodeRamp, userData, statsVars, wsVars>>
    /\ UNCHANGED apiVars
    /\ UNCHANGED codecVars
    /\ UNCHANGED generatorVars
    /\ UNCHANGED cacheVars
    /\ UNCHANGED hookVars
    /\ UNCHANGED runVars
    /\ UNCHANGED paceVars

(***************************************************************************)
(* The high-frequency tick                                                  *)
(***************************************************************************)
\* a cache that is read again while the timestamp is no more than 1 ms old
getSerializedTickLate ==
    IF cachedMessage = NoMessage \/ 0 - cachedTimestamp > CACHE_MS
    THEN [cachedMessage |-> cachedMessage + 1, cachedTimestamp |-> 0]
    ELSE [cachedMessage |-> cachedMessage, cachedTimestamp |-> cachedTimestamp]

\* getSerializedTick(): the cache as the call leaves it; the message returned
\* is the one then cached.  now is the present reading of Date.now(), 0.
getSerializedTick ==
    IF cachedMessage = NoMessage \/ 0 - cachedTimestamp >= CACHE_MS
    THEN [cachedMessage |-> cachedMessage + 1, cachedTimestamp |-> 0]
    ELSE [cachedMessage |-> cachedMessage, cachedTimestamp |-> cachedTimestamp]

\* an idle iteration that moves lastSendTime to the present all the same
RequeuedStamped(closure) == [closure EXCEPT !.lastSendTime = 0]

\* the closure as an iteration with messagesToSend = 0 hands it to
\* setImmediate: lastSendTime is not assigned
Requeued(closure) == closure

\* tick() is taken from the immediate queue.  With the flag off it returns at
\* once.  Otherwise it reads the clock and computes messagesToSend (where the
\* clock is not followed it is the environment's: any quota up to MaxQuota);
\* with quota 0 it goes straight to setImmediate(tick), otherwise it takes
\* the message of getSerializedTick() and enters the inner loop.  What the
\* messages hold is followed where the clock is: there Fetched(quota) says
\* what the call does to the cache, elsewhere CacheAside leaves it out.
TickEnter(quota) ==
    /\ running = NoTick
    /\ immediateQueue # <<>>
    /\ LET closure == Head(immediateQueue)
       IN  IF ~highFreqRunning
           THEN /\ quota = 0
                /\ immediateQueue' = Tail(immediateQueue)
                /\ running' = running
           ELSE IF quota = 0
           THEN /\ immediateQueue' = Append(Tail(immediateQueue), Requeued(closure))
                /\ running' = running
           ELSE /\ messagesSentThisSecond + quota <= MaxSent
                /\ immediateQueue' = Tail(immediateQueue)
                /\ running' = [rate |-> closure.rate, left |-> quota, live |-> TRUE,
                               now |-> 0, message |-> cachedMessage']
    /\ UNCHANGED clockPhase
    /\ UNCHANGED <<config, connectedClients, intervalId, rampIntervalId,
                   telemetryIntervalId, highFreqRunning, messagesSentThisSecond,
                   ioPending, rampBase, rampTicks>>
    /\ UNCHANGED <<overrodeRamp, lastTelemetryTime, userData, statsVars, wsVars>>
    /\ UNCHANGED apiVars
    /\ UNCHANGED codecVars
    /\ UNCHANGED generatorVars
    /\ UNCHANGED hookVars
    /\ UNCHANGED sampleVars
    /\ UNCHANGED runVars
    /\ UNCHANGED paceVars

\* a tick that sends what the cache holds without calling getSerializedTick()
FetchedNever(quota) == UNCHANGED <<cachedMessage, cachedTimestamp>>

\* the cache over a tick that calls getSerializedTick() when it has messages
\* to send
Fetched(quota) ==
    IF highFreqRunning /\ quota > 0
    THEN /\ getSerializedTick.cachedMessage <= MaxEncodings
         /\ cachedMessage' = getSerializedTick.cachedMessage
         /\ cachedTimestamp' = getSerializedTick.cachedTimestamp
    ELSE UNCHANGED <<cachedMessage, cachedTimestamp>>

\* the cache where the content of the messages is not followed
CacheAside == UNCHANGED <<cachedMessage, cachedTimestamp>>

\* one pass of the inner loop: broadcastBufferPubSub(message)
TickSend ==
    /\ running.live
    /\ running.left > 0
    /\ messagesSentThisSecond' = messagesSentThisSecond + 1
    /\ running' = [running EXCEPT !.left = @ - 1]
    /\ UNCHANGED <<config, connectedClients, intervalId, rampIntervalId,
                   telemetryIntervalId, highFreqRunning, immediateQueue,
                   ioPending, rampBase, rampTicks>>
    /\ UNCHANGED <<overrodeRamp, lastTelemetryTime, userData, statsVars, wsVars>>
    /\ UNCHANGED apiVars
    /\ UNCHANGED codecVars
    /\ UNCHANGED generatorVars
    /\ UNCHANGED cacheVars
    /\ UNCHANGED hookVars
    /\ UNCHANGED sampleVars
    /\ UNCHANGED runVars
    /\ UNCHANGED paceVars

\* a tick that spins on the stack instead of handing itself to setImmediate
TickReturnNoYield(closure) ==
    [immediateQueue |-> immediateQueue,
     running |-> [rate |-> closure.rate, left |-> 0, live |-> TRUE,
                  now |-> closure.lastSendTime, message |-> running.message]]

\* what the end of tick() leaves: the callback is queued again and the
\* stack is empty
TickReturn(closure) ==
    [immediateQueue |-> Append(immediateQueue, closure), running |-> NoTick]

\* the end of tick(): setImmediate(tick), return to the event loop
TickYield ==
    /\ running.live
    /\ running.left = 0
    /\ LET r == TickReturn([rate |-> running.rate, lastSendTime |-> running.now])
       IN  /\ immediateQueue' = r.immediateQueue
           /\ running' = r.running
    /\ UNCHANGED <<config, connectedClients, intervalId, rampIntervalId,
                   telemetryIntervalId, highFreqRunning, messagesSentThisSecond,
                   ioPending, rampBase, rampTicks>>
    /\ UNCHANGED <<overrodeRamp, lastTelemetryTime, userData, statsVars, wsVars>>
    /\ UNCHANGED apiVars
    /\ UNCHANGED codecVars
    /\ UNCHANGED generatorVars
    /\ UNCHANGED cacheVars
    /\ UNCHANGED hookVars
    /\ UNCHANGED sampleVars
    /\ UNCHANGED runVars
    /\ UNCHANGED paceVars

\* the sample where GET /stats is not followed
SampleAside == UNCHANGED lastActualRate

\* the I/O events the event loop dispatches, with bodies drawn from U
Dispatch(U) ==
    \/ Open
    \/ Close
    \/ \E u \in U : PostConfig(u) /\ UNCHANGED response
    \/ PostConfigInvalid /\ UNCHANGED response

NextOver(U) ==
    \/ Arrive
    \/ Dispatch(U)
    \/ RampTick
    \/ IntervalTick
    \/ SampleAside /\ TelemetryTick
    \/ \E q \in 0..MaxQuota : CacheAside /\ TickEnter(q)
    \/ TickSend
    \/ TickYield

Next == NextOver(Updates)

\* a timer callback runs only once its period has passed
TelemetryDue == telemetryIntervalId # NoTimer /\ telemetryIntervalId.due = 0

RampDue == rampIntervalId # NoTimer /\ rampIntervalId.due = 0

TimedTelemetryTick == TelemetryDue /\ TelemetryTick /\ SampleAside

TimedRampTick == RampDue /\ RampTick

\* the telemetry sampler with the clock running: subscribers come and go,
\* messages are paced at the default rate, the sample is taken when due
TelemetryNext ==
    \/ Arrive
    \/ Open
    \/ Close
    \/ PostConfigInvalid /\ UNCHANGED response
    \/ \E d \in ClockSteps : Advance(d)
    \/ IntervalTick
    \/ TimedTelemetryTick

TelemetrySpec == Init /\ [][TelemetryNext]_vars

\* the ws engine: sockets connect, start closing and close, the rate changes
\* between the single and the batched band, the pacing timer fires
FanoutNext ==
    \/ \E socket \in Sockets : wsConnection(socket)
    \/ \E socket \in Sockets : wsClosing(socket)
    \/ \E socket \in Sockets : wsClose(socket)
    \/ \E u \in WsUpdates : wsPostConfig(u)
    \/ wsIntervalTick

FanoutSpec == Init /\ [][FanoutNext]_vars

\* the client report store with the clock running
StatsNext ==
    \/ Arrive
    \/ Open
    \/ Close
    \/ \E i \in 1..MaxClients, msg \in BackMessages : handleClientMessage(i, msg)
    \/ DeleteStats
    \/ \E d \in StatsClockSteps : Advance(d)

StatsSpec == Init /\ [][StatsNext]_vars

(***************************************************************************)
(* The busy loop against the clock                                          *)
(***************************************************************************)
\* the steps of the high-resolution clock between two callbacks, in us: half
\* a message period at 10001/s and a whole one
HrSteps == {50, 100}

\* the time a pass of the inner loop can take when a publish is slow, in us
StallSteps == {1000}

\* a quota rounded to the nearest integer instead of down
messagesToSendRounded(closure) ==
    RoundDiv((0 - closure.lastSendTime) * closure.rate, US_PER_SECOND)

\* Math.floor(elapsed / nsPerMessage) with nsPerMessage = 1e9 / targetRate and
\* elapsed = now - lastSendTime, the times taken in us
messagesToSend(closure) ==
    ((0 - closure.lastSendTime) * closure.rate) \div US_PER_SECOND

\* what us more microseconds do to the clocks: Date.now() moves on by the
\* milliseconds completed, and with it the age of every kept timestamp and
\* the time left on every timer.  The run is followed for MaxClock ms after
\* the last telemetry sample.
Passed(us) ==
    LET d == (clockPhase + us) \div US_PER_MS
    IN /\ d - lastTelemetryTime <= MaxClock
       /\ clockPhase' = (clockPhase + us) % US_PER_MS
       /\ cachedTimestamp' = Max(cachedTimestamp - d, 0 - MaxCacheAge)
       /\ lastTelemetryTime' = Past(lastTelemetryTime, d)
       /\ clientStats' = [i \in DOMAIN clientStats |->
                             [clientStats[i] EXCEPT !.lastUpdate = Past(@, d)]]
       /\ telemetryIntervalId' = Sooner(telemetryIntervalId, d)
       /\ rampIntervalId' = Sooner(rampIntervalId, d)
       /\ UNCHANGED <<config, connectedClients, intervalId, highFreqRunning,
                      messagesSentThisSecond, ioPending, rampBase, rampTicks,
                      overrodeRamp, userData, backLog, wsVars, cachedMessage>>
       /\ UNCHANGED <<apiVars, codecVars, generatorVars, sampleVars, paceVars>>

\* the age of the run where it is not followed
RunAside == UNCHANGED runAge

\* the run is us microseconds older
RunAged(us) == runAge' = IF highFreqRunning THEN runAge + us ELSE runAge

\* us microseconds pass between two callbacks; the loop comes round before
\* more than MaxQuota messages are due
Elapse(us) ==
    /\ running = NoTick
    /\ \A i \in DOMAIN immediateQueue :
          messagesToSend(Waited(immediateQueue[i], us)) <= MaxQuota
    /\ Passed(us)
    /\ immediateQueue' = [i \in DOMAIN immediateQueue |-> Waited(immediateQueue[i], us)]
    /\ UNCHANGED running
    /\ UNCHANGED hookVars

\* us microseconds pass inside the inner loop of the tick on the stack
Stall(us) ==
    /\ running.live
    /\ us - running.now <= MaxElapsed
    /\ Passed(us)
    /\ immediateQueue' = [i \in DOMAIN immediateQueue |-> Waited(immediateQueue[i], us)]
    /\ running' = [running EXCEPT !.now = @ - us]
    /\ UNCHANGED hookVars

\* tick() with the clock read: the quota is messagesToSend, and with a quota
\* the message comes from getSerializedTick()
TimedTickEnter(quota) ==
    /\ immediateQueue # <<>>
    /\ highFreqRunning => quota = messagesToSend(Head(immediateQueue))
    /\ Fetched(quota)
    /\ TickEnter(quota)

\* the body that takes the rate into the busy loop
BusyUpdates == {[rate |-> 10001]}

\* the busy loop with the clock running: the rate is set before the first
\* subscriber arrives, so that one tick closure is in flight
BusyLoopNext ==
    \/ Arrive
    \/ Open
    \/ \E u \in BusyUpdates : connectedClients = 0 /\ PostConfig(u) /\ UNCHANGED response
    \/ \E us \in HrSteps : Elapse(us) /\ RunAside
    \/ \E us \in StallSteps : Stall(us) /\ RunAside
    \/ \E q \in 0..MaxQuota : TimedTickEnter(q)
    \/ TickSend
    \/ TickYield

BusyLoopSpec == Init /\ [][BusyLoopNext]_vars

\* one run of the busy loop from its start: the rate is set, the only
\* subscriber arrives and startHighFrequencyBroadcast runs once; from then on
\* the clock runs
RunNext ==
    \/ Arrive
    \/ connectedClients = 0 /\ Open
    \/ \E u \in BusyUpdates : connectedClients = 0 /\ PostConfig(u) /\ UNCHANGED response
    \/ \E us \in HrSteps : highFreqRunning /\ Elapse(us) /\ RunAged(us)
    \/ \E us \in StallSteps : Stall(us) /\ RunAged(us)
    \/ \E q \in 0..MaxQuota : TimedTickEnter(q)
    \/ TickSend
    \/ TickYield

RunSpec == Init /\ [][RunNext]_vars

\* the body that sets one message per second, and the step of the clock
\* that is half the pacing period at that rate
PaceUpdates == {[rate |-> 1]}

PaceSteps == {MS_PER_SECOND \div 2}

\* the pacing interval callback, run when the timer is due
PacedIntervalTick == PaceDue /\ IntervalTick

\* the pacing timer against the clock: subscribers arrive and stay, the
\* rate is set and set again, time passes, the timer fires when it is due
PaceNext ==
    \/ Arrive
    \/ Open
    \/ \E u \in PaceUpdates : PostConfig(u) /\ UNCHANGED response
    \/ \E d \in PaceSteps : PacedAdvance(d)
    \/ PacedIntervalTick

\* POST /config from the text of its body: JSON.parse is the first statement
\* of the try block, what it throws is caught and answered with 400
PostRaw(body) ==
    IF JsonParse(body) = ParseError
    THEN PostConfigInvalid /\ Refused
    ELSE PostConfig(JsonParse(body)) /\ Answered

\* requests with bodies that parse and bodies that do not, while timers run
RawNext ==
    \/ Arrive
    \/ Open
    \/ Close
    \/ \E body \in Bodies : PostRaw(body)
    \/ \E d \in PaceSteps : PacedAdvance(d)
    \/ PacedIntervalTick

RawSpec == Init /\ [][RawNext]_vars

\* time passes and a due pacing timer has its callback run; requests arrive
\* as they will
PaceFairSpec ==
    /\ Init
    /\ [][PaceNext]_vars
    /\ WF_vars(\E d \in PaceSteps : PacedAdvance(d))
    /\ WF_vars(PacedIntervalTick)

(***************************************************************************)
(* The client hook (client/src/hooks/useWebSocket.ts), autoConnect = true   *)
(*                                                                         *)
(* The state after construction is the one the mount effect leaves: the     *)
(* first socket is connecting.  A socket whose close event has been         *)
(* delivered is forgotten and its slot is free for the next one.            *)
(***************************************************************************)
FreeSockets == {s \in 1..MaxSockets : clientSockets[s] = "NONE"}

FreeTimers == {t \in 1..MaxSockets : reconnectTimers[t] = Unarmed}

Lowest(S) == CHOOSE x \in S : \A y \in S : x <= y

\* connect(): nothing while wsRef.current is OPEN or CONNECTING, otherwise a
\* new WebSocket is made and kept in wsRef
connect ==
    IF wsRef # NoSocket /\ clientSockets[wsRef] \in {"OPEN", "CONNECTING"}
    THEN UNCHANGED <<clientSockets, wsRef>>
    ELSE /\ FreeSockets # {}
         /\ clientSockets' = [clientSockets EXCEPT ![Lowest(FreeSockets)] = "CONNECTING"]
         /\ wsRef' = Lowest(FreeSockets)

\* an onclose that leaves reconnecting to the user
ArmedNot == [reconnectTimers |-> reconnectTimers, reconnectTimeoutRef |-> reconnectTimeoutRef]

\* onclose with autoConnect: reconnectTimeoutRef.current = setTimeout(connect, 2000)
Armed ==
    [reconnectTimers |-> [reconnectTimers EXCEPT ![Lowest(FreeTimers)] = RECONNECT_DELAY_MS],
     reconnectTimeoutRef |-> Lowest(FreeTimers)]

\* ws.onclose of socket s
onclose(s) ==
    /\ FreeTimers # {}
    /\ clientSockets' = [clientSockets EXCEPT ![s] = "NONE"]
    /\ identified' = [identified EXCEPT ![s] = FALSE]
    /\ connected' = FALSE
    /\ wsRef' = NoSocket
    /\ reconnectTimers' = Armed.reconnectTimers
    /\ reconnectTimeoutRef' = Armed.reconnectTimeoutRef
    /\ UNCHANGED <<clicks, lastCall>>
    /\ UNCHANGED <<serverVars, codecVars, generatorVars, cacheVars>>

\* the server accepts the connection: ws.onopen sets connected and sends the
\* identify message
SocketOpen(s) ==
    /\ clientSockets[s] = "CONNECTING"
    /\ clientSockets' = [clientSockets EXCEPT ![s] = "OPEN"]
    /\ connected' = TRUE
    /\ identified' = [identified EXCEPT ![s] = TRUE]
    /\ UNCHANGED <<wsRef, reconnectTimeoutRef, reconnectTimers, clicks, lastCall>>
    /\ UNCHANGED <<serverVars, codecVars, generatorVars, cacheVars>>

\* an open connection is lost: the close event of s
ServerDrop(s) ==
    /\ clientSockets[s] = "OPEN"
    /\ onclose(s)

\* the closing handshake of a socket closed by the hook completes: the close
\* event of s
CloseDelivered(s) ==
    /\ clientSockets[s] = "CLOSING"
    /\ onclose(s)

\* the user presses Connect
UserConnect ==
    /\ clicks < MaxClicks
    /\ connect
    /\ clicks' = clicks + 1
    /\ lastCall' = "connect"
    /\ UNCHANGED <<identified, connected, reconnectTimeoutRef, reconnectTimers>>
    /\ UNCHANGED <<serverVars, codecVars, generatorVars, cacheVars>>

\* the user presses Disconnect: disconnect() clears the timer kept in
\* reconnectTimeoutRef, closes the socket kept in wsRef and forgets both
UserDisconnect ==
    /\ clicks < MaxClicks
    /\ IF reconnectTimeoutRef # NoTimeout
       THEN /\ reconnectTimers' = [reconnectTimers EXCEPT ![reconnectTimeoutRef] = Unarmed]
            /\ reconnectTimeoutRef' = NoTimeout
       ELSE UNCHANGED <<reconnectTimers, reconnectTimeoutRef>>
    /\ clientSockets' =
          IF wsRef # NoSocket /\ clientSockets[wsRef] \in {"OPEN", "CONNECTING"}
          THEN [clientSockets EXCEPT ![wsRef] = "CLOSING"]
          ELSE clientSockets
    /\ wsRef' = NoSocket
    /\ clicks' = clicks + 1
    /\ lastCall' = "disconnect"
    /\ UNCHANGED <<identified, connected>>
    /\ UNCHANGED <<serverVars, codecVars, generatorVars, cacheVars>>

\* the reconnect timer t fires: connect()
TimerFire(t) ==
    /\ reconnectTimers[t] = 0
    /\ reconnectTimers' = [reconnectTimers EXCEPT ![t] = Unarmed]
    /\ connect
    /\ lastCall' = "timer"
    /\ UNCHANGED <<identified, connected, reconnectTimeoutRef, clicks>>
    /\ UNCHANGED <<serverVars, codecVars, generatorVars, cacheVars>>

\* d ms pass at the client while a reconnect timer is running
HookWait(d) ==
    /\ \E t \in 1..MaxSockets : reconnectTimers[t] > 0
    /\ reconnectTimers' = [t \in 1..MaxSockets |->
                              IF reconnectTimers[t] = Unarmed THEN Unarmed
                              ELSE Max(reconnectTimers[t] - d, 0)]
    /\ UNCHANGED <<clientSockets, identified, wsRef, connected, reconnectTimeoutRef,
                   clicks, lastCall>>
    /\ UNCHANGED <<serverVars, codecVars, generatorVars, cacheVars>>

HookNext ==
    \/ \E s \in 1..MaxSockets : SocketOpen(s)
    \/ \E s \in 1..MaxSockets : ServerDrop(s)
    \/ \E s \in 1..MaxSockets : CloseDelivered(s)
    \/ UserConnect
    \/ UserDisconnect
    \/ \E t \in 1..MaxSockets : TimerFire(t)
    \/ \E d \in ClockSteps : HookWait(d)

HookSpec == Init /\ [][HookNext]_vars

\* the server accepts every connection, a closing handshake completes, the
\* clock runs and a due timer fires; connections are lost and the user
\* presses buttons as they will
HookFairSpec ==
    /\ HookSpec
    /\ WF_vars(\E s \in 1..MaxSockets : SocketOpen(s))
    /\ WF_vars(\E s \in 1..MaxSockets : CloseDelivered(s))
    /\ WF_vars(\E d \in ClockSteps : HookWait(d))
    /\ WF_vars(\E t \in 1..MaxSockets : TimerFire(t))

(***************************************************************************)
(* The binary codec (server/src/generator.ts, client useWebSocket.ts)       *)
(*                                                                         *)
(* A JavaScript number holding an integer below 2^53 is written as its four *)
(* 16-bit digits, least significant first; a binary64 as its sign, biased   *)
(* exponent and the 52 fraction bits in digits of 16, 16, 16 and 4 bits.    *)
(***************************************************************************)
BINARY_TICK_SIZE == 20

SYMBOLS == <<"BTC", "ETH", "SOL", "DOGE", "XRP">>

SYMBOL_TO_INDEX == [BTC |-> 0, ETH |-> 1, SOL |-> 2, DOGE |-> 3, XRP |-> 4]

INDEX_TO_SYMBOL == (0 :> "BTC") @@ (1 :> "ETH") @@ (2 :> "SOL") @@ (3 :> "DOGE") @@ (4 :> "XRP")

\* the client's table, an array
CLIENT_INDEX_TO_SYMBOL == <<"BTC", "ETH", "SOL", "DOGE", "XRP">>

\* the two bytes of a 16-bit digit
Lo8(w) == w % 256
Hi8(w) == w \div 256

\* the 16-bit digit at byte offset off of a buffer, little-endian
ReadUInt16LE(buffer, off) == buffer[off + 1] + 256 * buffer[off + 2]

\* buffer.writeUInt32LE(value, 0)
writeUInt32LE(value) ==
    <<value % 256, (value \div 256) % 256, (value \div 65536) % 256,
      (value \div 16777216) % 256>>

\* buffer.readUInt32LE(off), view.getUint32(off, true): the low and the high
\* half of the value
readUInt32LE(buffer, off) ==
    [lo |-> ReadUInt16LE(buffer, off), hi |-> ReadUInt16LE(buffer, off + 2)]

\* buffer.writeDoubleLE(value, 4): the 64 bits, fraction first, the exponent
\* and the sign in the top 12
writeDoubleLE(value) ==
    LET top == value.m3 + 16 * value.exp + 32768 * value.sign
    IN <<Lo8(value.m0), Hi8(value.m0), Lo8(value.m1), Hi8(value.m1),
         Lo8(value.m2), Hi8(value.m2), Lo8(top), Hi8(top)>>

\* buffer.readDoubleLE(off), view.getFloat64(off, true)
readDoubleLE(buffer, off) ==
    LET top == ReadUInt16LE(buffer, off + 6)
    IN [sign |-> top \div 32768, exp |-> (top \div 16) % 2048, m3 |-> top % 16,
        m2 |-> ReadUInt16LE(buffer, off + 4), m1 |-> ReadUInt16LE(buffer, off + 2),
        m0 |-> ReadUInt16LE(buffer, off)]

\* buffer.writeBigInt64LE(BigInt(ts), 12) of a non-negative integer
writeBigInt64LE(ts) ==
    <<Lo8(ts[1]), Hi8(ts[1]), Lo8(ts[2]), Hi8(ts[2]),
      Lo8(ts[3]), Hi8(ts[3]), Lo8(ts[4]), Hi8(ts[4])>>

\* Number(buffer.readBigInt64LE(off)) of a value below 2^53
readBigInt64LE(buffer, off) ==
    <<ReadUInt16LE(buffer, off), ReadUInt16LE(buffer, off + 2),
      ReadUInt16LE(buffer, off + 4), ReadUInt16LE(buffer, off + 6)>>

\* generateTickBinary() once generateTick() has returned tick
generateTickBinary(tick) ==
    writeUInt32LE(SYMBOL_TO_INDEX[tick.symbol])
        \o writeDoubleLE(tick.price)
        \o writeBigInt64LE(tick.ts)

\* the server's decodeBinaryTick(buffer); INDEX_TO_SYMBOL[symbolIndex] || 'BTC'
decodeBinaryTick(buffer) ==
    LET symbolIndex == readUInt32LE(buffer, 0)
    IN [symbol |-> IF symbolIndex.hi = 0 /\ symbolIndex.lo \in DOMAIN INDEX_TO_SYMBOL
                   THEN INDEX_TO_SYMBOL[symbolIndex.lo] ELSE "BTC",
        price |-> readDoubleLE(buffer, 4),
        ts |-> readBigInt64LE(buffer, 12)]

\* a client decoder that takes the timestamp from its low 32 bits
clientDecodeBinaryTickLow(buffer) ==
    LET symbolIndex == readUInt32LE(buffer, 0)
        tsLow == readUInt32LE(buffer, 12)
    IN [symbol |-> IF symbolIndex.hi = 0 /\ symbolIndex.lo + 1 \in DOMAIN CLIENT_INDEX_TO_SYMBOL
                   THEN CLIENT_INDEX_TO_SYMBOL[symbolIndex.lo + 1] ELSE "BTC",
        price |-> readDoubleLE(buffer, 4),
        ts |-> <<tsLow.lo, tsLow.hi, 0, 0>>]

\* the client's decodeBinaryTick(buffer): ts = tsLow + tsHigh * 0x100000000,
\* exact below 2^53
clientDecodeBinaryTick(buffer) ==
    LET symbolIndex == readUInt32LE(buffer, 0)
        tsLow == readUInt32LE(buffer, 12)
        tsHigh == readUInt32LE(buffer, 16)
    IN [symbol |-> IF symbolIndex.hi = 0 /\ symbolIndex.lo + 1 \in DOMAIN CLIENT_INDEX_TO_SYMBOL
                   THEN CLIENT_INDEX_TO_SYMBOL[symbolIndex.lo + 1] ELSE "BTC",
        price |-> readDoubleLE(buffer, 4),
        ts |-> <<tsLow.lo, tsLow.hi, tsHigh.lo, tsHigh.hi>>]

\* binary64 values: the initial prices 50000 and 0.1, and the floor 0.0001
Doubles ==
    {[sign |-> 0, exp |-> 1038, m3 |-> 8, m2 |-> 27136, m1 |-> 0, m0 |-> 0],
     [sign |-> 0, exp |-> 1019, m3 |-> 9, m2 |-> 39321, m1 |-> 39321, m0 |-> 39322],
     [sign |-> 0, exp |-> 1009, m3 |-> 10, m2 |-> 14050, m1 |-> 60188, m0 |-> 17197]}

\* millisecond timestamps from 0 to 2^53 - 1, digit by digit
Timestamps ==
    {<<d0, d1, d2, d3>> : d0 \in {0, 255, 65535}, d1 \in {0, 256, 65535},
                          d2 \in {0, 65535}, d3 \in {0, 31}}

TickMessages ==
    {[symbol |-> SYMBOLS[i], price |-> p, ts |-> t] :
        i \in DOMAIN SYMBOLS, p \in Doubles, t \in Timestamps}

\* generateTickBinary(): the tick is encoded and sent
EncodeTick(tick) ==
    /\ sentTick' = tick
    /\ wire' = generateTickBinary(tick)
    /\ serverTick' = NoTickMessage
    /\ clientTick' = NoTickMessage
    /\ UNCHANGED <<serverVars, generatorVars>>
    /\ UNCHANGED cacheVars
    /\ UNCHANGED hookVars

\* the server's decoder is run on the message
ServerDecode ==
    /\ wire # <<>>
    /\ serverTick' = decodeBinaryTick(wire)
    /\ UNCHANGED <<sentTick, wire, clientTick, serverVars, generatorVars>>
    /\ UNCHANGED cacheVars
    /\ UNCHANGED hookVars

\* ws.onmessage with an ArrayBuffer: the client's decoder is run on it
ClientDecode ==
    /\ wire # <<>>
    /\ clientTick' = clientDecodeBinaryTick(wire)
    /\ UNCHANGED <<sentTick, wire, serverTick, serverVars, generatorVars>>
    /\ UNCHANGED cacheVars
    /\ UNCHANGED hookVars

CodecNext ==
    \/ \E tick \in TickMessages : EncodeTick(tick)
    \/ ServerDecode
    \/ ClientDecode

CodecSpec == Init /\ [][CodecNext]_vars

(***************************************************************************)
(* The tick generator (server/src/generator.ts)                             *)
(*                                                                         *)
(* A price is a pair of its whole part and its fraction in units of 1e-7,   *)
(* one digit finer than the six decimals a tick carries.  Math.random() is  *)
(* drawn in thousandths.                                                    *)
(***************************************************************************)
\* the draws of Math.random() that pick each symbol, in thousandths
SymbolDraws == {0, 200, 400, 600, 800}

\* the draws of Math.random() for the walk: (r - 0.5) * 0.002 is -1/1000,
\* -1/2000, 0 and 1/2000
WalkDraws == {0, 250, 500, 750}

\* a <= b
PriceLeq(a, b) == a.whole < b.whole \/ (a.whole = b.whole /\ a.frac <= b.frac)

\* price / divisor for a divisor of UNITS_PER_ONE, rounded down to the unit
PriceOver(price, divisor) ==
    [whole |-> price.whole \div divisor,
     frac |-> (price.whole % divisor) * (UNITS_PER_ONE \div divisor) + price.frac \div divisor]

PricePlus(a, b) ==
    LET frac == a.frac + b.frac
    IN [whole |-> a.whole + b.whole + frac \div UNITS_PER_ONE, frac |-> frac % UNITS_PER_ONE]

\* a - b for b <= a
PriceMinus(a, b) ==
    IF a.frac >= b.frac
    THEN [whole |-> a.whole - b.whole, frac |-> a.frac - b.frac]
    ELSE [whole |-> a.whole - b.whole - 1, frac |-> a.frac + UNITS_PER_ONE - b.frac]

\* currentPrice + currentPrice * (r - 0.5) * 0.002 for the draw r
Walked(currentPrice, r) ==
    IF r = 0 THEN PriceMinus(currentPrice, PriceOver(currentPrice, 1000))
    ELSE IF r = 250 THEN PriceMinus(currentPrice, PriceOver(currentPrice, 2000))
    ELSE IF r = 500 THEN currentPrice
    ELSE PricePlus(currentPrice, PriceOver(currentPrice, 2000))

\* a generator that stores the walked price as it comes
NewPriceUnclamped(currentPrice, r) == Walked(currentPrice, r)

\* Math.max(0.0001, currentPrice + change)
NewPrice(currentPrice, r) ==
    LET moved == Walked(currentPrice, r)
    IN IF PriceLeq(moved, PRICE_FLOOR) THEN PRICE_FLOOR ELSE moved

\* Number(newPrice.toFixed(6)): rounded to six decimals
toFixed6(price) ==
    LET frac == ((price.frac + 5) \div 10) * 10
    IN [whole |-> price.whole + frac \div UNITS_PER_ONE, frac |-> frac % UNITS_PER_ONE]

\* generateTick() with the two draws of Math.random(); the tick's ts is
\* Date.now() and is left out
generateTick(symbolDraw, walkDraw) ==
    /\ generateCalls < MaxGenerate
    /\ LET symbol == SYMBOLS[(symbolDraw * Len(SYMBOLS)) \div 1000 + 1]
           newPrice == NewPrice(prices[symbol], walkDraw)
       IN /\ prices' = [prices EXCEPT ![symbol] = newPrice]
          /\ generated' = [symbol |-> symbol, price |-> toFixed6(newPrice)]
    /\ generateCalls' = generateCalls + 1
    /\ UNCHANGED <<serverVars, codecVars>>
    /\ UNCHANGED cacheVars
    /\ UNCHANGED hookVars

GeneratorNext == \E symbolDraw \in SymbolDraws, walkDraw \in WalkDraws :
                    generateTick(symbolDraw, walkDraw)

\* the generator from the state after construction and from a declined one
GeneratorInit ==
    /\ ServerInit
    /\ prices \in {InitialPrices, DeclinedPrices}

GeneratorSpec == GeneratorInit /\ [][GeneratorNext]_vars

\* the bodies used where the configuration's fields are followed one by one
ConfigUpdates ==
    {[rate |-> 1001], [rampEnabled |-> TRUE], [format |-> "binary"],
     [rate |-> 10001, rampPercent |-> 50], [rampEnabled |-> FALSE, format |-> "json"]}

\* the configuration API: the POST /config handler taken in its two halves
\* (nothing else runs between them), with subscribers, the ramp and the
\* pacing timer around it
ConfigNext ==
    \/ PostApply
    \/ /\ post = NoPost
       /\ \/ Arrive
          \/ Open
          \/ Close
          \/ \E u \in ConfigUpdates : PostAssign(u)
          \/ PostConfigInvalid /\ UNCHANGED response
          \/ RampTick
          \/ IntervalTick

ConfigSpec == Init /\ [][ConfigNext]_vars

\* the back channel under load: subscribers come and go, the broadcast is
\* paced, reports and other payloads arrive, the store is cleared
BackChannelNext ==
    \/ Arrive
    \/ Open
    \/ Close
    \/ \E i \in 1..MaxClients, msg \in StatsMessages \cup DiscardedMessages :
           handleClientMessage(i, msg)
    \/ DeleteStats
    \/ IntervalTick

BackChannelSpec == Init /\ [][BackChannelNext]_vars

\* the back channel alone: connections open and close, identify and report,
\* the store is cleared; no clock and no pacing
IdentityNext ==
    \/ Arrive
    \/ Open
    \/ Close
    \/ \E i \in 1..MaxClients, msg \in BackMessages : handleClientMessage(i, msg)
    \/ DeleteStats

IdentitySpec == Init /\ [][IdentityNext]_vars

\* stats messages that lack numbers: one with none of them, one without
\* p99LatencyMs only
PartialStats ==
    {[type |-> "stats", clientId |-> "browser-js"],
     [type |-> "stats", clientId |-> "tauri-js", messagesPerSec |-> 100,
      totalMessages |-> 100, avgLatencyMs |-> 1]}

\* reports, whole and partial, arrive while the telemetry timer runs
ReportNext ==
    \/ Arrive
    \/ Open
    \/ \E i \in 1..MaxClients, msg \in StatsMessages \cup PartialStats :
           handleClientMessage(i, msg)
    \/ \E d \in StatsClockSteps : Advance(d)
    \/ IntervalTick
    \/ TimedTelemetryTick

ReportSpec == Init /\ [][ReportNext]_vars

\* the ramp under the clock: the ramp is switched on or re-applied,
\* subscribers come and go, time passes, timers run when they are due
RampUpdates == {[rampEnabled |-> TRUE]}

RampNext ==
    \/ Arrive
    \/ Dispatch(RampUpdates)
    \/ \E d \in ClockSteps : Advance(d)
    \/ TimedRampTick
    \/ TimedTelemetryTick

\* Time passes, and a timer that keeps coming due has its callback run.
RampFairSpec ==
    /\ Init
    /\ [][RampNext]_vars
    /\ WF_vars(\E d \in ClockSteps : Advance(d))
    /\ SF_vars(TimedRampTick)
    /\ SF_vars(TimedTelemetryTick)

\* the data channel under both formats: POST /config selects the format,
\* moves the rate through the three strategies and switches the ramp on
FormatUpdates ==
    {[format |-> f] : f \in {"json", "binary"}}
    \cup {[rate |-> 1001], [rate |-> 10001], [rampEnabled |-> TRUE]}

FormatSpec == Init /\ [][NextOver(FormatUpdates)]_vars

Spec == Init /\ [][Next]_vars

\* The event loop runs its poll phase once per iteration, before the check
\* phase that runs the immediates: a waiting I/O event is dispatched whenever
\* the stack keeps coming back empty.  A callback that has started runs on.
FairSpec ==
    /\ Init
    /\ [][NextOver(FairUpdates)]_vars
    /\ WF_vars(TickSend)
    /\ WF_vars(TickYield)
    /\ SF_vars(Dispatch(FairUpdates))

(***************************************************************************)
(* Derived views of the scheduler                                           *)
(***************************************************************************)
\* the SchedulerState mode the handles and the flag amount to
Mode ==
    IF highFreqRunning THEN "BusyLoop"
    ELSE IF intervalId = NoTimer THEN "Stopped"
    ELSE IF intervalId.kind = "single" THEN "Interval"
    ELSE "Batch"

\* the tick closures that will send when they run: with the flag on, every
\* callback in the immediate queue and the one on the stack
LiveChains ==
    IF highFreqRunning
    THEN [i \in 1..Len(immediateQueue) |-> immediateQueue[i].rate]
         \o (IF running.live THEN <<running.rate>> ELSE <<>>)
    ELSE <<>>

\* the handler's elapsed, in ms: now - lastTelemetryTime
elapsedMs == 0 - lastTelemetryTime

\* const actualRate = Math.round(messagesSentThisSecond / elapsed), elapsed in
\* seconds, as a telemetry tick taken now computes it
actualRate ==
    IF elapsedMs = 0
    THEN IF messagesSentThisSecond = 0 THEN "NaN" ELSE "Infinity"
    ELSE RoundDiv(messagesSentThisSecond * MS_PER_SECOND, elapsedMs)

\* Object.fromEntries(clientStats), the clients of GET /stats: one property
\* per key, the last entry of a key winning
getStatsClients ==
    [id \in {clientStats[i].clientId : i \in DOMAIN clientStats} |->
        clientStats[CHOOSE i \in DOMAIN clientStats :
                        /\ clientStats[i].clientId = id
                        /\ \A j \in DOMAIN clientStats :
                              clientStats[j].clientId = id => j <= i]]

\* lastActualRate = actualRate, the first assignments of the telemetry
\* callback
Sampled == lastActualRate' = actualRate

\* serverRate of GET /stats
serverRate == lastActualRate

\* the sampler followed into GET /stats: subscribers come and go, messages
\* are paced at the default rate, the clock runs, the sample is taken when
\* due
SampledTelemetryTick == TelemetryDue /\ TelemetryTick /\ Sampled

SampleNext ==
    \/ Arrive
    \/ Open
    \/ Close
    \/ \E d \in ClockSteps : Advance(d)
    \/ IntervalTick
    \/ SampledTelemetryTick

\* time passes and a due telemetry timer has its callback run; subscribers
\* come and go as they will
SampleFairSpec ==
    /\ Init
    /\ [][SampleNext]_vars
    /\ WF_vars(\E d \in ClockSteps : Advance(d))
    /\ WF_vars(SampledTelemetryTick)

\* the broadcast mode of the ws engine, from the callback of its pacing
\* timer; it arms no setImmediate loop
wsMode ==
    IF wsEngine.intervalId = NoTimer THEN "Stopped"
    ELSE IF wsEngine.intervalId.kind = "single" THEN "Interval"
    ELSE "Batch"

\* the mode the specification's rate table asks for
TableMode(rate) ==
    IF rate <= 0 THEN "Stopped"
    ELSE IF rate <= 1000 THEN "Interval"
    ELSE IF rate <= 10000 THEN "Batch"
    ELSE "BusyLoop"

\* exactly the pacing mechanism the table asks for at this rate is live,
\* parametrised by this rate, and nothing else is
PacedFor(rate) ==
    CASE TableMode(rate) = "Stopped" ->
            intervalId = NoTimer /\ LiveChains = <<>>
      [] TableMode(rate) = "Interval" ->
            /\ LiveChains = <<>>
            /\ intervalId = [kind |-> "single", periodNum |-> 1000,
                             periodDen |-> rate, messagesPerTick |-> 1]
      [] TableMode(rate) = "Batch" ->
            /\ LiveChains = <<>>
            /\ intervalId.kind = "batch"
            /\ intervalId.periodNum = intervalId.periodDen
            /\ (intervalId.messagesPerTick - 1) * 1000 < rate
            /\ rate <= intervalId.messagesPerTick * 1000
      [] TableMode(rate) = "BusyLoop" ->
            /\ intervalId = NoTimer
            /\ LiveChains = <<rate>>

(***************************************************************************)
(* Properties                                                               *)
(***************************************************************************)
\* C1: at most one pacing mechanism is live at any time: never two busy-loop
\* chains, never a busy-loop chain together with an armed interval timer (so a
\* tick queued before a restart must not send when it fires).
OnePacingMechanism ==
    /\ Len(LiveChains) <= 1
    /\ ~(LiveChains # <<>> /\ intervalId # NoTimer)

\* C2: with a target rate <= 0 and a subscriber connected the scheduler sends
\* nothing: no interval timer is armed and no busy loop runs.
NonPositiveRateStops ==
    (config.rate <= 0 /\ connectedClients > 0) =>
        (intervalId = NoTimer /\ ~highFreqRunning)

\* C3: with no subscriber the scheduler is fully stopped (no pacing timer, flag
\* off, no ramp timer, no tick on the stack) and no data message is sent for as
\* long as the count stays zero.
IdleFullyStopped ==
    /\ [](connectedClients = 0 =>
            /\ intervalId = NoTimer
            /\ rampIntervalId = NoTimer
            /\ ~highFreqRunning
            /\ ~running.live)
    /\ [][(connectedClients = 0 /\ connectedClients' = 0) =>
            messagesSentThisSecond' = messagesSentThisSecond]_vars

IdleAfterRunning ==
    /\ connectedClients = 0
    /\ config.rampEnabled
    /\ immediateQueue # <<>>
    /\ messagesSentThisSecond > 0

\* C4: the subscription that follows an idle period leaves the scheduler in
\* the run state of the stored target rate, whatever was applied while idle.
ResumesFromIdle ==
    [][(connectedClients = 0 /\ connectedClients' = 1) => PacedFor(config.rate)']_vars

\* C5: for a rate R > 0 the strategy in force is Interval (one message per
\* wake-up, period 1000/R ms) iff R <= 1000, Batch (period 1 ms) iff
\* 1000 < R <= 10000, BusyLoop iff R > 10000.
StrategyBands ==
    (connectedClients > 0 /\ config.rate > 0) =>
        /\ (Mode = "Interval") <=> (config.rate <= 1000)
        /\ (Mode = "Batch") <=> (1000 < config.rate /\ config.rate <= 10000)
        /\ (Mode = "BusyLoop") <=> (config.rate > 10000)
        /\ Mode = "Interval" =>
              /\ intervalId.messagesPerTick = 1
              /\ intervalId.periodNum = 1000
              /\ intervalId.periodDen = config.rate
        /\ Mode = "Batch" =>
              /\ intervalId.periodNum = 1
              /\ intervalId.periodDen = 1

BatchAtUpperEdge ==
    /\ connectedClients > 0
    /\ config.rate = 10000
    /\ Mode = "Batch"
    /\ messagesSentThisSecond > 0

\* C6: the mode starts Stopped; it enters a run state only on the first
\* subscription or on a configuration apply, enters Stopped only when the
\* subscriber count reaches zero, and a second or later subscription neither
\* stops nor starts anything.
ModeStateMachine ==
    /\ (Init => Mode = "Stopped")
    /\ [][/\ (Mode' # Mode /\ Mode' # "Stopped") =>
                \/ (connectedClients = 0 /\ connectedClients' = 1)
                \/ config' # config
          /\ (Mode' # Mode /\ Mode' = "Stopped") => connectedClients' = 0
          /\ (connectedClients >= 1 /\ connectedClients' = connectedClients + 1) =>
                UNCHANGED <<intervalId, rampIntervalId, telemetryIntervalId,
                            highFreqRunning, immediateQueue>>]_vars

\* C7: after every mutation of the configuration the scheduler is restarted
\* before anything more is paced: whatever paces messages was started from the
\* configuration now in force.
PacedByCurrentConfig ==
    /\ intervalId.kind = "single" => intervalId.periodDen = config.rate
    /\ intervalId.kind = "batch" =>
          intervalId.messagesPerTick = CeilDiv(config.rate, 1000)
    /\ \A i \in DOMAIN LiveChains : LiveChains[i] = config.rate
    /\ rampIntervalId # NoTimer =>
          /\ config.rampEnabled
          /\ rampIntervalId.periodMs = config.rampIntervalSec * 1000

\* C8: a change of the target rate from 999 to 1001 or from 9999 to 10001 with
\* a subscriber connected leaves the new strategy as the only sender.
CleanStrategySwitch ==
    [][(/\ connectedClients > 0
        /\ \/ (config.rate = 999 /\ config'.rate = 1001)
           \/ (config.rate = 9999 /\ config'.rate = 10001))
       => PacedFor(config.rate)']_vars

\* C9: every busy-loop iteration returns to the event loop before the next
\* one, so under fair dispatch an I/O event that is waiting (a subscription,
\* an unsubscription, a configuration change) is eventually handled.
BusyLoopYields == ioPending ~> ~ioPending

EventWaitsDuringBurst ==
    /\ ioPending
    /\ highFreqRunning
    /\ running.live
    /\ running.left > 0

\* C10: a ramp tick sets the rate to floor(rate * (1 + rampPercent/100)), the
\* floor taken once per tick on the already floored rate; from 100 at 10 %
\* the rate after three ticks is 133.
RampArithmetic ==
    /\ []((rampBase = 100 /\ config.rampPercent = 10) =>
            /\ rampTicks = 1 => config.rate = 110
            /\ rampTicks = 2 => config.rate = 121
            /\ rampTicks = 3 => config.rate = 133)
    /\ [][rampTicks' = rampTicks + 1 =>
            /\ 100 * config'.rate <= config.rate * (100 + config.rampPercent)
            /\ config.rate * (100 + config.rampPercent) < 100 * (config'.rate + 1)]_vars

ThreeRampTicks ==
    /\ rampBase = 100
    /\ config.rampPercent = 10
    /\ rampTicks = 3
    /\ config.rate = 133

\* what the restart armed was computed from this rate: the single timer's
\* period, the batch size, or the rate of the tick chain queued last
StartedAt(rate) ==
    \/ /\ ~highFreqRunning
       /\ intervalId.kind = "single"
       /\ intervalId.periodDen = rate
    \/ /\ ~highFreqRunning
       /\ intervalId.kind = "batch"
       /\ (intervalId.messagesPerTick - 1) * 1000 < rate
       /\ rate <= intervalId.messagesPerTick * 1000
    \/ /\ highFreqRunning
       /\ intervalId = NoTimer
       /\ immediateQueue # <<>>
       /\ immediateQueue[Len(immediateQueue)].rate = rate

RampOnlyWhileEnabled ==
    /\ []((~config.rampEnabled \/ connectedClients = 0) => rampIntervalId = NoTimer)
    /\ [][rampTicks' = rampTicks + 1 =>
            (config.rampEnabled /\ connectedClients > 0)]_vars
    /\ [][(config'.rate # config.rate /\ (~config.rampEnabled \/ connectedClients = 0)) =>
            (rampTicks' = 0 /\ rampBase' = config'.rate)]_vars

RampSwitchedOff ==
    /\ rampTicks > 0
    /\ ~config.rampEnabled
    /\ connectedClients > 0
    /\ rampIntervalId = NoTimer
\* C13: while rampEnabled stays true and a subscriber stays connected, a ramp
\* step eventually happens, however often subscribers connect or the
\* configuration is re-applied in between.
RampStepEventually ==
    (config.rampEnabled /\ connectedClients > 0 /\ rampTicks = 0)
        ~> (rampTicks > 0 \/ ~config.rampEnabled \/ connectedClients = 0)

\* C14: every data message is encoded as config.format says, the 20-byte
\* record under binary and the text record under json, whichever of the
\* three strategies sends it.
WireFollowsFormat ==
    [][/\ IntervalTick => broadcastPubSubWire(config) = generateTickWire(config.format)
       /\ TickSend => broadcastBufferPubSubWire(config) = generateTickWire(config.format)]_vars

\* C15: a deliver pushes the message to every subscriber that is open at that
\* moment and to none that is closing or closed, whatever connected and
\* disconnected before; whether one subscriber is pushed to depends on its
\* own state only.
DeliverToOpenOnly ==
    [][wsIntervalTick =>
          /\ DOMAIN wsPushed' = DOMAIN wss.clients
          /\ \A t \in DOMAIN wss.clients :
                 wsPushed'[t] <=> (wss.clients[t] = "OPEN")]_vars

\* a broadcast has gone to one socket and past another that was closing
PushedPastClosing ==
    /\ wsEngine.messagesSentThisSecond > 0
    /\ \E t, u \in DOMAIN wsPushed :
          /\ wsPushed[t] /\ ~wsPushed[u]
          /\ u \in DOMAIN wss.clients /\ wss.clients[u] = "CLOSING"

\* C16: each generated message raises the per-second send counter by exactly
\* one, however many subscribers are connected.
CounterCountsMessages ==
    [][wsIntervalTick =>
          wsEngine'.messagesSentThisSecond =
              wsEngine.messagesSentThisSecond + wsEngine.intervalId.messagesPerTick]_vars

\* C17 as stated: each telemetry tick sets the egress rate to the messages
\* counted since the previous tick divided by the seconds elapsed since it,
\* with a divisor that is never zero, and resets the counter.
SampleIsQuotient ==
    [][TelemetryTick =>
          /\ elapsedMs > 0
          /\ actualRate * elapsedMs = messagesSentThisSecond * MS_PER_SECOND
          /\ messagesSentThisSecond' = 0]_vars

\* C17: each telemetry tick sets the egress rate to the messages counted
\* since the previous tick divided by the seconds elapsed since it, rounded to
\* the nearest integer, with a divisor that is never zero; it then resets
\* the counter and restarts the measurement, and no other step lowers the
\* counter, so every sent message is counted in exactly one sample.
SampleIsRoundedQuotient ==
    /\ [][TelemetryTick =>
             /\ elapsedMs > 0
             /\ actualRate \in Nat
             /\ 2 * actualRate * elapsedMs <=
                    2 * messagesSentThisSecond * MS_PER_SECOND + elapsedMs
             /\ 2 * messagesSentThisSecond * MS_PER_SECOND <
                    2 * actualRate * elapsedMs + elapsedMs
             /\ messagesSentThisSecond' = 0
             /\ lastTelemetryTime' = 0]_vars
    /\ [][~TelemetryTick => messagesSentThisSecond' >= messagesSentThisSecond]_vars

\* a sample about to be taken: 3 messages over 2 s, reported as 2 per second
SampleRoundsUp ==
    /\ TelemetryDue
    /\ elapsedMs = 2 * MS_PER_SECOND
    /\ messagesSentThisSecond = 3
    /\ actualRate = 2

\* a stored report without its receipt time
ReportOf(entry) == [k \in DOMAIN entry \ {"lastUpdate"} |-> entry[k]]

\* C18: after one or several DELETE /stats in a row GET /stats lists no
\* client; an identify alone after that creates no record; an identify
\* followed by a stats message of the same id leaves exactly one record,
\* keyed by that id.
ClearThenRepopulate ==
    /\ backLog = Cleared => DOMAIN getStatsClients = {}
    /\ \A c \in ClientIds :
          /\ backLog = Cleared \o <<[type |-> "identify", clientId |-> c]>>
                => DOMAIN getStatsClients = {}
          /\ backLog = Cleared \o <<[type |-> "identify", clientId |-> c],
                                    [type |-> "stats", clientId |-> c]>>
                => /\ DOMAIN getStatsClients = {c}
                   /\ getStatsClients[c].clientId = c
                   /\ Len(clientStats) = 1

\* cleared, then identify and stats from tauri-js: one record
RepopulatedAfterClear ==
    /\ backLog = Cleared \o <<[type |-> "identify", clientId |-> "tauri-js"],
                              [type |-> "stats", clientId |-> "tauri-js"]>>
    /\ DOMAIN getStatsClients = {"tauri-js"}

\* C19: the map holds at most one record per id; a stats report leaves under
\* its id its own values stamped with the time of receipt and leaves the
\* records of all other ids as they were; the values under an id change only
\* by a report for that id.
OneRecordPerId ==
    /\ [](\A i, j \in DOMAIN clientStats :
             clientStats[i].clientId = clientStats[j].clientId => i = j)
    /\ [][\A i \in 1..MaxClients, msg \in StatsMessages :
             handleClientMessage(i, msg) =>
                 /\ MapHas(clientStats', msg.clientId)
                 /\ MapGet(clientStats', msg.clientId) = StatsEntry(msg)
                 /\ \A c \in ClientIds \ {msg.clientId} :
                        /\ MapHas(clientStats', c) <=> MapHas(clientStats, c)
                        /\ MapHas(clientStats, c) =>
                               MapGet(clientStats', c) = MapGet(clientStats, c)]_vars
    /\ [][\A c \in ClientIds :
             (/\ MapHas(clientStats, c)
              /\ MapHas(clientStats', c)
              /\ ReportOf(MapGet(clientStats', c)) # ReportOf(MapGet(clientStats, c)))
                 => \E i \in 1..MaxClients, msg \in StatsMessages :
                        msg.clientId = c /\ handleClientMessage(i, msg)]_vars

\* browser-js has reported twice, the second report 2.5 s after tauri-js's
\* only one: two records, the newer numbers and time under browser-js
SecondReportOverwrote ==
    /\ Len(clientStats) = 2
    /\ MapHas(clientStats, "browser-js") /\ MapHas(clientStats, "tauri-js")
    /\ clientStats[1].clientId = "browser-js"
    /\ MapGet(clientStats, "browser-js").totalMessages = 190
    /\ MapGet(clientStats, "browser-js").lastUpdate = 0
    /\ MapGet(clientStats, "tauri-js").totalMessages = 100
    /\ MapGet(clientStats, "tauri-js").lastUpdate = 0 - (STALE_AFTER_MS \div 2)

\* C20: a record last updated more than 5 s ago is shown as not connected
\* and is still in the clients of GET /stats; a record leaves the map only
\* by DELETE /stats, not by ageing and not by its subscriber's close; a
\* fresh report shows its id as connected at once.
StaleKeptUntilCleared ==
    /\ [](\A c \in ClientIds :
             MapHas(clientStats, c) =>
                 /\ c \in DOMAIN getStatsClients
                 /\ (0 - MapGet(clientStats, c).lastUpdate > STALE_AFTER_MS
                        => ~connectedView[c]))
    /\ [][(\E c \in ClientIds : MapHas(clientStats, c) /\ ~MapHas(clientStats', c))
             => DeleteStats]_vars
    /\ [][\A i \in 1..MaxClients, msg \in StatsMessages :
             handleClientMessage(i, msg) => connectedView'[msg.clientId]]_vars

\* every subscriber has gone and tauri-js's report is 6 s old: not shown as
\* connected, still returned by GET /stats
StaleRecordKept ==
    /\ connectedClients = 0
    /\ MapHas(clientStats, "tauri-js")
    /\ 0 - MapGet(clientStats, "tauri-js").lastUpdate = 6 * MS_PER_SECOND
    /\ ~connectedView["tauri-js"]
    /\ "tauri-js" \in DOMAIN getStatsClients

\* C21: a back-channel message that cannot be parsed, or that parses but has
\* an unknown or missing type, is discarded without effect: the client
\* reports, the connections' identities, the configuration, the scheduler and
\* the egress counter are as before, and the engine keeps running.
MalformedDiscarded ==
    [][\A i \in 1..MaxClients, msg \in DiscardedMessages :
          handleClientMessage(i, msg) =>
              /\ UNCHANGED <<clientStats, userData, config, connectedClients>>
              /\ UNCHANGED <<intervalId, rampIntervalId, telemetryIntervalId,
                             highFreqRunning, immediateQueue, running>>
              /\ UNCHANGED messagesSentThisSecond
              /\ ENABLED IntervalTick => (ENABLED IntervalTick)']_vars

\* after a clear a report came and then text that is no JSON: the report is
\* stored and the broadcast is still paced
GarbageAfterReport ==
    /\ backLog = Cleared \o <<[type |-> "stats", clientId |-> "tauri-js"],
                              [type |-> "undefined", clientId |-> NoClientId]>>
    /\ MapHas(clientStats, "tauri-js")
    /\ intervalId # NoTimer

\* C25: in Batch mode every 1 ms wake-up emits exactly ceil(R/1000) messages,
\* the number fixed when the timer was started for the rate R in force; the
\* nominal emission per second, 1000 * ceil(R/1000), is never below R and
\* exceeds it by less than 1000.
BatchEmission ==
    /\ [](Mode = "Batch" =>
             /\ intervalId.periodNum = BATCH_PERIOD_MS /\ intervalId.periodDen = 1
             /\ MS_PER_SECOND * intervalId.messagesPerTick >= config.rate
             /\ MS_PER_SECOND * intervalId.messagesPerTick - config.rate < MS_PER_SECOND)
    /\ [][(Mode = "Batch" /\ IntervalTick) =>
             /\ messagesSentThisSecond' =
                    messagesSentThisSecond + intervalId.messagesPerTick
             /\ intervalId' = intervalId]_vars

\* at rate 1001 the batch timer has emitted its two messages per wake-up
\* three times
BatchOfTwo ==
    /\ Mode = "Batch"
    /\ config.rate = 1001
    /\ intervalId.messagesPerTick = 2
    /\ messagesSentThisSecond = 6
    /\ rampBase = 1001

\* C29: with a client connected the ws engine runs the mode its rate asks
\* for: one message per interval tick up to 1000, batches of ceil(rate/1000)
\* per 1 ms tick from 1001 to 10000, the setImmediate high-frequency loop
\* above 10000.
WsModeAsDocumented ==
    (DOMAIN wss.clients # {} /\ config.rate > 0) =>
        /\ wsMode = TableMode(config.rate)
        /\ wsMode = "Interval" => wsEngine.intervalId.messagesPerTick = 1
        /\ wsMode = "Batch" =>
              wsEngine.intervalId.messagesPerTick = CeilDiv(config.rate, MS_PER_SECOND)

(***************************************************************************)
(* The configuration API                                                    *)
(***************************************************************************)
\* C24: POST /config overwrites exactly the fields its body names, leaves the
\* other fields as they were and answers with the configuration that results;
\* what the handler assigns to the object it got from getConfig() does not
\* reach the engine's configuration.
ConfigFrame ==
    [][/\ (\A u \in ConfigUpdates : PostAssign(u) => config' = config)
       /\ PostApply =>
             /\ \A k \in DOMAIN config :
                   config'[k] = IF k \in DOMAIN post.updates THEN post.updates[k]
                                ELSE config[k]
             /\ DOMAIN config' = DOMAIN config
             /\ response' = config']_vars

\* the handler holds a copy it has changed, the engine's configuration still
\* being the one a previous POST answered with
CopyChangedAlone ==
    /\ post # NoPost
    /\ post.local.fields.rate = 10001
    /\ post.local.fields.rampPercent = 50
    /\ config.rate = 1001
    /\ config.rampPercent = DEFAULT_RAMP_PERCENT
    /\ response = config

(***************************************************************************)
(* The binary codec                                                         *)
(***************************************************************************)
\* C22: a binary message is 20 bytes, and both the server's decoder and the
\* client's, which reads the timestamp as two 32-bit halves, return the key,
\* the value and the timestamp (below 2^53) of the tick that was encoded.
BinaryRoundTrip ==
    /\ wire # <<>> => Len(wire) = BINARY_TICK_SIZE /\ \A i \in DOMAIN wire : wire[i] \in 0..255
    /\ serverTick # NoTickMessage => serverTick = sentTick
    /\ clientTick # NoTickMessage => clientTick = sentTick

\* both decoders have read a DOGE tick at the floor value stamped 2^53 - 1
LargestStampDecoded ==
    /\ sentTick # NoTickMessage
    /\ sentTick.symbol = "DOGE"
    /\ sentTick.price.exp = 1009
    /\ sentTick.ts = <<65535, 65535, 65535, 31>>
    /\ serverTick = sentTick
    /\ clientTick = sentTick

(***************************************************************************)
(* The tick generator                                                       *)
(***************************************************************************)
\* C23: after any run of generateTick() calls every stored price and the price
\* of the returned tick are at least the floor 0.0001, the returned symbol is
\* one of the five, and a call changes the stored price of its symbol only.
GeneratorKeepsFloor ==
    /\ [](/\ \A symbol \in DOMAIN prices : PriceLeq(PRICE_FLOOR, prices[symbol])
          /\ DOMAIN prices = {SYMBOLS[i] : i \in DOMAIN SYMBOLS}
          /\ generated # NoTickMessage =>
                /\ PriceLeq(PRICE_FLOOR, generated.price)
                /\ generated.symbol \in DOMAIN prices)
    /\ [][\A symbolDraw \in SymbolDraws, walkDraw \in WalkDraws :
             generateTick(symbolDraw, walkDraw) =>
                 /\ generated'.symbol = SYMBOLS[(symbolDraw * Len(SYMBOLS)) \div 1000 + 1]
                 /\ \A symbol \in DOMAIN prices :
                       symbol # generated'.symbol => prices'[symbol] = prices[symbol]]_vars

\* a downward step of DOGE from 0.0001001 was held at the floor, the other
\* prices as they were
ClampedAtFloor ==
    /\ generateCalls = 1
    /\ generated # NoTickMessage
    /\ generated.symbol = "DOGE"
    /\ prices.DOGE = PRICE_FLOOR
    /\ generated.price = PRICE_FLOOR
    /\ prices.XRP = DeclinedPrices.XRP
    /\ prices.BTC = InitialPrices.BTC

(***************************************************************************)
(* The busy loop against the clock                                          *)
(***************************************************************************)
\* C26: an iteration of the busy loop that finds elapsed since lastSendTime
\* takes the quota q with q <= elapsed * rate / 1e6 < q + 1 (elapsed in us);
\* with q = 0 it sends nothing and hands the closure on with lastSendTime as
\* it was; with q > 0 it sends one message per pass of the inner loop until q
\* are sent, and the closure it hands on has lastSendTime at the instant the
\* iteration read the clock.
QuotaIsFloor ==
    [][/\ \A q \in 0..MaxQuota :
            (highFreqRunning /\ Fetched(q) /\ TickEnter(q)) =>
                LET closure == Head(immediateQueue)
                    elapsed == 0 - closure.lastSendTime
                IN /\ q * US_PER_SECOND <= elapsed * closure.rate
                   /\ elapsed * closure.rate < (q + 1) * US_PER_SECOND
                   /\ q = 0 => /\ immediateQueue' = Append(Tail(immediateQueue), closure)
                               /\ UNCHANGED <<running, messagesSentThisSecond>>
                   /\ q > 0 => /\ running'.left = q
                               /\ running'.now = 0
                               /\ UNCHANGED messagesSentThisSecond
       /\ TickSend => /\ messagesSentThisSecond' = messagesSentThisSecond + 1
                      /\ running'.left = running.left - 1
                      /\ running'.now = running.now
       /\ TickYield => /\ running.left = 0
                       /\ immediateQueue'[Len(immediateQueue')].lastSendTime = running.now]_vars

\* two messages have been sent and their iteration has handed the closure on
\* with lastSendTime at its reading of the clock, 50 us back by now: the next
\* iteration finds half a message period elapsed
HalfPeriodAfterBurst ==
    /\ running = NoTick
    /\ highFreqRunning
    /\ Len(immediateQueue) = 1
    /\ immediateQueue[1].lastSendTime = 0 - 50
    /\ messagesToSend(immediateQueue[1]) = 0
    /\ messagesSentThisSecond = 2
    /\ clockPhase = 250

\* C27: getSerializedTick() returns the cached encoding as it is when there is
\* one and Date.now() has not moved on since it was encoded (now -
\* cachedTimestamp < 1), and otherwise encodes a new tick, caches it and sets
\* cachedTimestamp to now; so a second call in the same millisecond gets the
\* same encoding and no tick is generated for it.
CacheWithinMs ==
    /\ [][\A q \in 1..MaxQuota :
             (highFreqRunning /\ TickEnter(q)) =>
                 IF cachedMessage # NoMessage /\ 0 - cachedTimestamp < CACHE_MS
                 THEN /\ running'.message = cachedMessage
                      /\ UNCHANGED <<cachedMessage, cachedTimestamp>>
                 ELSE /\ cachedMessage' = cachedMessage + 1
                      /\ cachedTimestamp' = 0
                      /\ running'.message = cachedMessage']_vars
    /\ [][cachedMessage' # cachedMessage => \E q \in 1..MaxQuota : TickEnter(q)]_vars

\* a second burst in the millisecond of the first carries the first encoding
SecondCallSameMs ==
    /\ running.live
    /\ running.left > 0
    /\ running.message = 1
    /\ cachedMessage = 1
    /\ cachedTimestamp = 0
    /\ messagesSentThisSecond = 1
    /\ clockPhase = 250

\* C28 as stated: whenever the busy loop sends a message, the encoding it
\* sends is at most 1 ms old.
EverySendWithinMs ==
    [][TickSend => 0 - cachedTimestamp <= CACHE_MS]_vars

\* C28: a burst sends one encoding throughout, the one getSerializedTick()
\* returned when the burst began, which was encoded in the millisecond of
\* that call; the rest of a burst that takes longer sends it at whatever age
\* it has by then.
BurstCarriesOneEncoding ==
    /\ [][\A q \in 1..MaxQuota :
             (highFreqRunning /\ TickEnter(q)) =>
                 /\ cachedTimestamp' = 0
                 /\ running'.message = cachedMessage']_vars
    /\ [](running.live => running.message = cachedMessage)
    /\ [][TickSend => running'.message = running.message]_vars

\* the second message of a burst is about to be sent two milliseconds after
\* its encoding was made
LateInBurst ==
    /\ running.live
    /\ running.left = 1
    /\ messagesSentThisSecond = 1
    /\ running.message = cachedMessage
    /\ 0 - cachedTimestamp = 2
    /\ 0 - running.now > US_PER_MS

(***************************************************************************)
(* The client hook                                                          *)
(***************************************************************************)
\* a socket is open, the hook shows connected and the identify message has
\* gone out on that socket
Reconnected ==
    /\ connected
    /\ \E s \in 1..MaxSockets : clientSockets[s] = "OPEN" /\ identified[s]

\* the hook keeps no socket, shows disconnected and no reconnect timer is
\* running: nothing is left that would call connect()
Idle ==
    /\ wsRef = NoSocket
    /\ ~connected
    /\ \A t \in 1..MaxSockets : reconnectTimers[t] = Unarmed

\* C30 as stated: whenever the socket has closed, the hook is eventually
\* connected again and has sent identify on the new socket.
ClosedThenReconnected ==
    (wsRef = NoSocket /\ ~connected) ~> Reconnected

\* C30: whenever the socket has closed, the hook is eventually connected
\* again on a socket it has sent identify on, unless disconnect() has
\* cancelled the reconnect timer during the wait and left the hook without a
\* socket and without a timer; only a call of disconnect() leaves it so.
ReconnectsUnlessCancelled ==
    /\ [](Idle => lastCall = "disconnect")
    /\ (wsRef = NoSocket /\ ~connected) ~> (Reconnected \/ Idle)

\* without the user touching anything the connection was lost, the timer
\* fired and its connect() made the socket that is now open and identified
ReconnectedByTimer ==
    /\ clicks = 0
    /\ lastCall = "timer"
    /\ connected
    /\ wsRef # NoSocket
    /\ clientSockets[wsRef] = "OPEN"
    /\ identified[wsRef]

\* C31: after disconnect() and until connect() runs again, by the user or by
\* a timer, no reconnect timer is pending: the close event of the socket
\* that disconnect() closed arms none.
DisconnectStaysDisconnected ==
    lastCall = "disconnect" => \A t \in 1..MaxSockets : reconnectTimers[t] = Unarmed

\* the sockets of the hook that are open or connecting
LiveSockets == {s \in 1..MaxSockets : clientSockets[s] \in {"OPEN", "CONNECTING"}}

\* C32: at most one socket of the hook is open or connecting at any time.
AtMostOneSocket == Cardinality(LiveSockets) <= 1

(***************************************************************************)
(* Identity of a report                                                     *)
(***************************************************************************)
\* C33 as stated: a stats message handled on a connection writes its record
\* under the id that connection last gave by identify.
StatsUnderOwnIdentity ==
    [][\A i \in 1..MaxClients, msg \in StatsMessages :
          handleClientMessage(i, msg) => msg.clientId = userData[i]]_vars

\* C33: a stats message writes its record under the id the message itself
\* names, whatever the connection gave by identify: the key and the clientId
\* of the record are the message's, and the connection's identity stays as
\* it was; identify changes the identity of its own connection only and
\* writes no record.
StatsUnderReportedId ==
    /\ [][\A i \in 1..MaxClients, msg \in StatsMessages :
             handleClientMessage(i, msg) =>
                 /\ MapHas(clientStats', msg.clientId)
                 /\ MapGet(clientStats', msg.clientId).clientId = msg.clientId
                 /\ MapGet(clientStats', msg.clientId).totalMessages = msg.totalMessages
                 /\ userData' = userData]_vars
    /\ [][\A i \in 1..MaxClients, c \in ClientIds :
             handleClientMessage(i, [type |-> "identify", clientId |-> c]) =>
                 /\ userData' = [userData EXCEPT ![i] = c]
                 /\ clientStats' = clientStats]_vars

\* since the store was cleared one connection is open, it has identified as
\* browser-js, and the only report that came is filed under tauri-js
ReportUnderOtherId ==
    /\ userData = <<"browser-js">>
    /\ Len(backLog) = 3
    /\ backLog[2] = [type |-> "identify", clientId |-> "browser-js"]
    /\ backLog[3] = [type |-> "stats", clientId |-> "tauri-js"]
    /\ MapHas(clientStats, "tauri-js")
    /\ ~MapHas(clientStats, "browser-js")

(***************************************************************************)
(* Reports and the telemetry line                                           *)
(***************************************************************************)
\* C34: whatever stats messages have been stored, no telemetry callback ends
\* in an exception: the process is never left dead by one.
TelemetryNeverThrows == running # Thrown

(***************************************************************************)
(* The sample after a stop                                                  *)
(***************************************************************************)
\* C35: once no subscriber is left and the scheduler has stopped, the rate
\* GET /stats serves comes to read 0 while it stays stopped.
StoppedRateReadsZero ==
    (connectedClients = 0 /\ telemetryIntervalId = NoTimer)
        ~> (serverRate = 0 \/ connectedClients > 0)

\* the second half of that claim: the start that follows a stop begins the
\* measurement anew, so that the first sample after it counts only the
\* messages and the time since that start
StartBeginsAnew ==
    [][(connectedClients = 0 /\ connectedClients' > 0) =>
          (messagesSentThisSecond' = 0 /\ lastTelemetryTime' = 0)]_vars

(***************************************************************************)
(* One run of the busy loop                                                 *)
(***************************************************************************)
\* C36: the messages one busy-loop run has emitted never exceed
\* floor(age of the run * rate): the loop does not send ahead of its target.
\* (No sample is taken in this run, so the counter holds all its messages.)
NeverAhead ==
    highFreqRunning =>
        messagesSentThisSecond <= (runAge * config.rate) \div US_PER_SECOND

\* the run is 300 us old and has sent two messages in two bursts, each
\* dropping half a period: three periods have passed, and nothing is due
FallenBehind ==
    /\ highFreqRunning
    /\ running = NoTick
    /\ runAge = 300
    /\ messagesSentThisSecond = 2
    /\ (runAge * config.rate) \div US_PER_SECOND = 3
    /\ immediateQueue # <<>>
    /\ messagesToSend(Head(immediateQueue)) = 0

(***************************************************************************)
(* The pacing timer under restarts                                          *)
(***************************************************************************)
\* C37: while a subscriber is connected and the rate is positive, a data
\* message is eventually sent, however often the scheduler is restarted.
\* (No subscriber leaves and no sample is taken here, so the counter keeps
\* every message sent.)
EventuallySends ==
    (connectedClients > 0 /\ config.rate > 0) ~> (messagesSentThisSecond > 0)

(***************************************************************************)
(* POST /config with a body that is no JSON                                 *)
(***************************************************************************)
\* C38: a POST /config whose body JSON.parse rejects is answered with status
\* 400 and changes no field of the configuration and nothing of the
\* scheduler: the pacing, ramp and telemetry timers and the busy loop stay
\* as they are, with the time they have left.
InvalidJsonRefused ==
    [][\A body \in Bodies :
          (JsonParse(body) = ParseError /\ PostRaw(body)) =>
              /\ response'.status = "400 Bad Request"
              /\ UNCHANGED <<config, connectedClients, intervalId, intervalDue,
                             rampIntervalId, telemetryIntervalId, highFreqRunning,
                             immediateQueue, messagesSentThisSecond, rampBase>>]_vars

\* the part of that claim about the state: such a request is answered with
\* the body Invalid JSON and changes neither configuration nor scheduler
InvalidJsonLeavesState ==
    [][\A body \in Bodies :
          (JsonParse(body) = ParseError /\ PostRaw(body)) =>
              /\ response'.body = "Invalid JSON"
              /\ UNCHANGED <<config, connectedClients, intervalId, intervalDue,
                             rampIntervalId, telemetryIntervalId, highFreqRunning,
                             immediateQueue, messagesSentThisSecond, rampBase>>]_vars

====
